---- MODULE Spec2Model ----
(***************************************************************************)
(* A model of minutemate: the live transcription accumulator (the React    *)
(* hook useSpeechRecognition, src/src/hooks/useSpeechRecognition.ts), the  *)
(* controls of RecordingScreen that drive it, and the transcript-to-minutes*)
(* compiler in its two copies (src/src/services/minutesGenerator.ts, which *)
(* MinutesScreen imports, and src/src/services/exportService.ts).          *)
(*                                                                         *)
(* Text is modelled as a sequence of one-character strings, so that trim,  *)
(* toLowerCase, includes, startsWith, slice, split and join are computed   *)
(* as JavaScript computes them.                                            *)
(***************************************************************************)
EXTENDS Integers, Sequences, FiniteSets, TLC

VARIABLES
    apiPresent,           \* window.SpeechRecognition || webkitSpeechRecognition exists
    checkPending,         \* the mount effect's 100 ms support check has not run yet
    state,                \* useState<RecordingState>
    isRecording,          \* useState(false)
    isSupported,          \* useState(true)
    error,                \* useState<string | null>
    transcript,           \* useState(''), also returned as fullTranscript
    interimTranscript,    \* useState('')
    markers,              \* useState<RecordingMarker[]>
    elapsedTime,          \* useState(0)
    isManuallyStopped,    \* isManuallyStoppedRef.current
    finalTranscript,      \* finalTranscriptRef.current
    recognitionRef,       \* recognitionRef.current: NoRef, DeadRef or an engine slot
    engines,              \* the SpeechRecognition objects that are started and not ended
    restartTimeoutRef,    \* restartTimeoutRef.current: NoRef, DeadRef or a timer slot
    timers,               \* the pending setTimeout restart callbacks
    timerIntervalRef,     \* timerIntervalRef.current: "null", "active" or "cleared"
    orphanIntervals,      \* running setInterval tickers no ref points to any more
    userHold,             \* history: stop/pause was called and no start/resume since
    denied,               \* history: 'not-allowed' was reported and no start/resume since
    restarted,            \* history: a restart timeout has started an engine since the last start/resume
    lastResult,           \* history: the result event the last step delivered, <<>> if it delivered none
    lastError,            \* history: the error kind the last step reported, "none" if it reported none
    consentChecked,       \* RecordingScreen: useState(meeting.consentConfirmed)
    showConsentError,     \* RecordingScreen: useState(false)
    onScreen,             \* RecordingScreen is mounted (handleContinue navigates away)
    meeting,              \* the current Meeting record (App's currentMeeting)
    compiler,             \* the module whose generateMinutes and extractActionsFromMinutes run
    parsed,               \* the freshly parsed actions handed to mergeAndConsolidateActions
    out                   \* history: what the last compiler step computed

hookState == << apiPresent, checkPending, state, isRecording, isSupported, error,
               transcript, interimTranscript, markers, elapsedTime,
               isManuallyStopped, finalTranscript, recognitionRef, engines,
               restartTimeoutRef, timers, timerIntervalRef, orphanIntervals,
               userHold, denied, restarted >>

hookVars == << hookState, lastResult, lastError >>

screenVars == << consentChecked, showConsentError, onScreen >>

minutesVars == << compiler, parsed, out >>

vars == << hookVars, screenVars, meeting, minutesVars >>

-----------------------------------------------------------------------------
(* Bounds of the model *)

MaxEngines == 2      \* engine objects alive at the same time
MaxTimers == 2       \* restart timeouts pending at the same time
MaxOrphans == 1      \* tickers running without a ref that are told apart (this many or more)
MaxElapsed == 1      \* seconds the clock is followed
MaxMarkers == 1      \* markers kept
MaxTextLen == 3      \* characters of one final text fed to the dedup algorithm
MaxCommitLen == 5    \* characters of committed transcript the dedup run follows

-----------------------------------------------------------------------------
(* JavaScript strings *)

\* one lower-case letter, one upper-case letter and the space
Chars == {"a", "B", " "}

Str(n) == UNION {[1..k -> Chars] : k \in 0..n}

\* the characters of a string literal
Chs(s) == [i \in 1..Len(s) |-> SubSeq(s, i, i)]

Range(f) == {f[i] : i \in DOMAIN f}

UpperCase == Chs("ABCDEFGHIJKLMNOPQRSTUVWXYZ")
LowerCase == Chs("abcdefghijklmnopqrstuvwxyz")
Digits == Chs("0123456789")

ToLower == [c \in Range(UpperCase) |->
               LowerCase[CHOOSE i \in DOMAIN UpperCase : UpperCase[i] = c]]
ToUpper == [c \in Range(LowerCase) |->
               UpperCase[CHOOSE i \in DOMAIN LowerCase : LowerCase[i] = c]]

LowerChar(c) == IF c \in DOMAIN ToLower THEN ToLower[c] ELSE c
UpperChar(c) == IF c \in DOMAIN ToUpper THEN ToUpper[c] ELSE c

\* String.prototype.toLowerCase
Lower(s) == [i \in 1..Len(s) |-> LowerChar(s[i])]

SetMin(S) == CHOOSE x \in S : \A y \in S : x <= y
SetMax(S) == CHOOSE x \in S : \A y \in S : x >= y

\* String.prototype.trim
Trim(s) ==
    LET solid == {i \in 1..Len(s) : s[i] \notin {" ", "\n"}}
    IN  IF solid = {} THEN <<>> ELSE SubSeq(s, SetMin(solid), SetMax(solid))

\* String.prototype.slice(k), k >= 0
Slice(s, k) == IF k >= Len(s) THEN <<>> ELSE SubSeq(s, k + 1, Len(s))

\* String.prototype.startsWith
StartsWith(s, t) == Len(t) <= Len(s) /\ SubSeq(s, 1, Len(t)) = t

\* String.prototype.endsWith
EndsWith(s, t) == Len(t) <= Len(s) /\ SubSeq(s, Len(s) - Len(t) + 1, Len(s)) = t

\* String.prototype.includes
Includes(s, t) ==
    Len(t) <= Len(s) /\ \E i \in 0..(Len(s) - Len(t)) : SubSeq(s, i + 1, i + Len(t)) = t

\* String.prototype.split(' '): adjacent spaces give empty words, '' gives ['']
RECURSIVE Split(_)
Split(s) ==
    LET spaces == {i \in 1..Len(s) : s[i] = " "}
    IN  IF spaces = {} THEN << s >>
        ELSE LET i == SetMin(spaces)
             IN  << SubSeq(s, 1, i - 1) >> \o Split(Slice(s, i))

\* Array.prototype.join(' ')
RECURSIVE Join(_)
Join(ws) ==
    IF Len(ws) = 0 THEN <<>>
    ELSE IF Len(ws) = 1 THEN ws[1]
    ELSE ws[1] \o << " " >> \o Join(Tail(ws))

\* Array.prototype.slice(-i), 1 <= i <= length
LastWords(ws, i) == SubSeq(ws, Len(ws) - i + 1, Len(ws))

\* Array.prototype.slice(k), k >= 0
WordsFrom(ws, k) == IF k >= Len(ws) THEN <<>> ELSE SubSeq(ws, k + 1, Len(ws))

IsPrefix(s, t) == StartsWith(t, s)

-----------------------------------------------------------------------------
(* Text of the compiler: string literals, character classes and the        *)
(* regular expressions of the source, matched as JavaScript matches them   *)
(* (leftmost match, alternatives in order, greedy repetition)              *)

\* \w, \s and the classes the source writes in brackets
WordCh == Range(UpperCase) \cup Range(LowerCase) \cup Range(Digits) \cup {"_"}
SpaceCh == {" ", "\n"}

\* the elements of a pattern
Lit(t) == [k |-> "lit", t |-> Chs(t)]                 \* literal text, case as written
LitI(t) == [k |-> "liti", t |-> Chs(t)]               \* literal text under the i flag (t in lower case)
Rep(cs, min, max) == [k |-> "rep", cs |-> cs, min |-> min, max |-> max]   \* [cs]{min,max}, greedy
NRep(cs, min, max) == [k |-> "nrep", cs |-> cs, min |-> min, max |-> max] \* [^cs]{min,max}, greedy
Alt(ps) == [k |-> "alt", ps |-> ps]                   \* (?:p1|p2|...), in this order
Opt(p) == Alt(<< p, <<>> >>)                          \* (?:p)?
WordB == [k |-> "b"]                                  \* \b
Bos == [k |-> "bos"]                                  \* ^
Eos == [k |-> "eos"]                                  \* $
Ahead(cs) == [k |-> "ahead", cs |-> cs]               \* (?=[cs])
Behind(cs) == [k |-> "behind", cs |-> cs]             \* (?<=[cs])

Unbounded == 1000     \* the upper limit of + and *, above every text length of the model

Ws1 == Rep(SpaceCh, 1, Unbounded)                     \* \s+
Ws0 == Rep(SpaceCh, 0, Unbounded)                     \* \s*
AnyRest == NRep({"\n"}, 0, Unbounded)                 \* .*

\* a phrase with \s+ for every space of t, under the i flag
RECURSIVE PhraseI(_)
PhraseI(t) ==
    LET cs == Chs(t)
        sp == {i \in 1..Len(cs) : cs[i] = " "}
    IN  IF sp = {} THEN << LitI(t) >>
        ELSE LET i == SetMin(sp)
             IN  << LitI(SubSeq(t, 1, i - 1)), Ws1 >> \o PhraseI(SubSeq(t, i + 1, Len(t)))

\* (?:w1|w2|...) for a list of phrases
AltI(ws) == Alt([i \in 1..Len(ws) |-> PhraseI(ws[i])])

IsWordAt(s, i) == i >= 1 /\ i <= Len(s) /\ s[i] \in WordCh

RECURSIVE Flat(_)
Flat(ss) == IF ss = <<>> THEN <<>> ELSE Head(ss) \o Flat(Tail(ss))

\* first unless it is 0 (no position), second then
OrElse(first, second) == IF first # 0 THEN first ELSE second

\* the first position in lo..hi of s whose character is not in cs (in = TRUE)
\* or is in cs (in = FALSE), 0 when there is none; the interval is halved so
\* that the search nests no deeper than its logarithm
RECURSIVE FirstStop(_, _, _, _, _)
FirstStop(s, cs, in, lo, hi) ==
    IF lo > hi THEN 0
    ELSE IF lo = hi THEN (IF (s[lo] \in cs) # in THEN lo ELSE 0)
    ELSE OrElse(FirstStop(s, cs, in, lo, (lo + hi) \div 2),
                FirstStop(s, cs, in, (lo + hi) \div 2 + 1, hi))

\* the length of a run from i that ends before stop, or at hi when stop is 0
RunUpTo(i, hi, stop) == IF stop = 0 THEN hi - i + 1 ELSE stop - i

\* the length of the run of characters from position i of s on that are in
\* cs (in = TRUE) or not in cs (in = FALSE), at most max
RunLen(s, i, cs, in, max) ==
    IF i + max - 1 < Len(s)
    THEN RunUpTo(i, i + max - 1, FirstStop(s, cs, in, i, i + max - 1))
    ELSE RunUpTo(i, Len(s), FirstStop(s, cs, in, i, Len(s)))

\* the position after the match of pat that starts at position i of s and
\* that backtracking finds first, 0 when pat does not match there
RECURSIVE RxEnd(_, _, _)
RECURSIVE RepTry(_, _, _, _, _)
RECURSIVE AltTry(_, _, _, _, _, _)

\* a repetition of lo to hi characters followed by r: the longest run first,
\* then shorter ones; the interval is halved as in FirstStop
RepTry(s, i, lo, hi, r) ==
    IF lo > hi THEN 0
    ELSE IF lo = hi THEN RxEnd(s, i + lo, r)
    ELSE OrElse(RepTry(s, i, (lo + hi) \div 2 + 1, hi, r),
                RepTry(s, i, lo, (lo + hi) \div 2, r))

\* the alternatives number lo to hi of ps followed by r: the first
\* alternative first
AltTry(s, i, ps, lo, hi, r) ==
    IF lo > hi THEN 0
    ELSE IF lo = hi THEN RxEnd(s, i, ps[lo] \o r)
    ELSE OrElse(AltTry(s, i, ps, lo, (lo + hi) \div 2, r),
                AltTry(s, i, ps, (lo + hi) \div 2 + 1, hi, r))

RxEnd(s, i, pat) ==
    IF pat = <<>> THEN i
    ELSE
      LET h == Head(pat)
          r == Tail(pat)
          n == Len(s)
      IN  CASE h.k = "lit" ->
                 IF i + Len(h.t) - 1 <= n /\ SubSeq(s, i, i + Len(h.t) - 1) = h.t
                 THEN RxEnd(s, i + Len(h.t), r) ELSE 0
            [] h.k = "liti" ->
                 IF i + Len(h.t) - 1 <= n
                    /\ \A j \in 1..Len(h.t) : LowerChar(s[i + j - 1]) = h.t[j]
                 THEN RxEnd(s, i + Len(h.t), r) ELSE 0
            [] h.k = "rep" -> RepTry(s, i, h.min, RunLen(s, i, h.cs, TRUE, h.max), r)
            [] h.k = "nrep" -> RepTry(s, i, h.min, RunLen(s, i, h.cs, FALSE, h.max), r)
            [] h.k = "alt" -> AltTry(s, i, h.ps, 1, Len(h.ps), r)
            [] h.k = "b" ->
                 IF IsWordAt(s, i - 1) # IsWordAt(s, i) THEN RxEnd(s, i, r) ELSE 0
            [] h.k = "bos" -> IF i = 1 THEN RxEnd(s, i, r) ELSE 0
            [] h.k = "eos" -> IF i = n + 1 THEN RxEnd(s, i, r) ELSE 0
            [] h.k = "ahead" ->
                 IF i <= n /\ s[i] \in h.cs THEN RxEnd(s, i, r) ELSE 0
            [] h.k = "behind" ->
                 IF i >= 2 /\ s[i - 1] \in h.cs THEN RxEnd(s, i, r) ELSE 0

\* the first position in lo..hi at which pat matches, 0 when there is none
RECURSIVE FirstMatch(_, _, _, _)
FirstMatch(s, pat, lo, hi) ==
    IF lo > hi THEN 0
    ELSE IF lo = hi THEN (IF RxEnd(s, lo, pat) # 0 THEN lo ELSE 0)
    ELSE OrElse(FirstMatch(s, pat, lo, (lo + hi) \div 2),
                FirstMatch(s, pat, (lo + hi) \div 2 + 1, hi))

\* the match that starts at start: << start, end >> with end the position
\* after it, << 0, 0 >> when start is 0
MatchAt(s, pat, start) ==
    IF start = 0 THEN << 0, 0 >> ELSE << start, RxEnd(s, start, pat) >>

\* the leftmost match of pat at or after position from
RxFind(s, from, pat) == MatchAt(s, pat, FirstMatch(s, pat, from, Len(s) + 1))

\* RegExp.prototype.test
RxTest(s, pat) == FirstMatch(s, pat, 1, Len(s) + 1) # 0

\* s with the match m replaced
ReplaceAt(s, m, to) ==
    IF m[1] = 0 THEN s
    ELSE SubSeq(s, 1, m[1] - 1) \o to \o SubSeq(s, m[2], Len(s))

\* String.prototype.replace with a regular expression without the g flag
RxReplace(s, pat, to) == ReplaceAt(s, RxFind(s, 1, pat), to)

\* String.prototype.replace with the g flag, continued from position from,
\* where m is the next match
RECURSIVE RxReplaceFrom(_, _, _, _, _)
RxReplaceFrom(s, from, pat, to, m) ==
    IF m[1] = 0 THEN SubSeq(s, from, Len(s))
    ELSE IF m[2] > m[1]
    THEN SubSeq(s, from, m[1] - 1) \o to
         \o RxReplaceFrom(s, m[2], pat, to, RxFind(s, m[2], pat))
    ELSE IF m[1] > Len(s) THEN SubSeq(s, from, Len(s)) \o to
    ELSE SubSeq(s, from, m[1] - 1) \o to \o << s[m[1]] >>
         \o RxReplaceFrom(s, m[1] + 1, pat, to, RxFind(s, m[1] + 1, pat))

RxReplaceAll(s, pat, to) == RxReplaceFrom(s, 1, pat, to, RxFind(s, 1, pat))

\* String.prototype.split with a regular expression that matches no empty
\* text, continued from position from, where m is the next match
RECURSIVE RxSplitFrom(_, _, _, _)
RxSplitFrom(s, from, pat, m) ==
    IF m[1] = 0 \/ m[2] = m[1] THEN << SubSeq(s, from, Len(s)) >>
    ELSE << SubSeq(s, from, m[1] - 1) >> \o RxSplitFrom(s, m[2], pat, RxFind(s, m[2], pat))

RxSplit(s, pat) == RxSplitFrom(s, 1, pat, RxFind(s, 1, pat))

-----------------------------------------------------------------------------
(* extractNewContent: the deduplication of a final text against the        *)
(* committed transcript                                                    *)

\* Case 3: the largest i such that the last i words of existing start incoming
OverlapWords(incoming, existing) ==
    LET existingWords == Split(existing)
    IN  {i \in 1..Len(existingWords) :
            StartsWith(incoming, Join(LastWords(existingWords, i)))}

\* which return statement of extractNewContent is taken
extractCase(incomingText, existingText) ==
    LET incoming == Lower(Trim(incomingText))
        existing == Lower(Trim(existingText))
    IN  IF existingText = <<>> THEN "no-existing"
        ELSE IF incomingText = <<>> THEN "no-incoming"
        ELSE IF Includes(existing, incoming) THEN "contained"
        ELSE IF Includes(incoming, existing) THEN "cumulative"
        ELSE IF OverlapWords(incoming, existing) # {} THEN "overlap"
        ELSE "new"

extractNewContent(incomingText, existingText) ==
    LET incoming == Lower(Trim(incomingText))
        existing == Lower(Trim(existingText))
        which == extractCase(incomingText, existingText)
    IN  CASE which = "no-existing" -> incomingText
          [] which = "no-incoming" -> <<>>
          [] which = "contained" -> <<>>
          [] which = "cumulative" -> Trim(Slice(Trim(incomingText), Len(existing)))
          [] which = "overlap" ->
                LET i == SetMax(OverlapWords(incoming, existing))
                    incomingWords == Split(Trim(incomingText))
                IN  IF Len(incomingWords) > i
                    THEN Join(WordsFrom(incomingWords, i))
                    ELSE <<>>
          [] OTHER -> Trim(incomingText)

-----------------------------------------------------------------------------
(* Speech engine events *)

\* a SpeechRecognitionResult: isFinal and the transcript of its first alternative
Result(final, text) == [isFinal |-> final, transcript |-> text]

\* onresult, the loop over event.results: the final texts concatenated
RECURSIVE FinalTextOf(_)
FinalTextOf(ev) ==
    IF Len(ev) = 0 THEN <<>>
    ELSE (IF Head(ev).isFinal THEN Head(ev).transcript ELSE <<>>) \o FinalTextOf(Tail(ev))

\* onresult, the loop over event.results: the last result that is not final
InterimOf(ev) ==
    LET open == {i \in 1..Len(ev) : ~ev[i].isFinal}
    IN  IF open = {} THEN <<>> ELSE ev[SetMax(open)].transcript

\* the result events delivered to the hook: an interim, a final, a final with
\* the interim of the next utterance
HookEvents ==
    { << Result(FALSE, <<"a">>) >>,
      << Result(TRUE, <<"a">>) >>,
      << Result(TRUE, <<"a">>), Result(FALSE, <<"b">>) >> }

DedupEvents == {<< Result(TRUE, t) >> : t \in Str(MaxTextLen)}

ErrorKinds == {"no-speech", "not-allowed", "aborted", "network",
               "service-not-allowed", "audio-capture"}

MarkerTypes == {"decision", "action", "keypoint"}

-----------------------------------------------------------------------------
(* Refs, engine objects and timers *)

NoRef == 0           \* useRef(null)
DeadRef == -1        \* a ref to an engine that has ended, or to a timeout that has run

\* cs is the lifecycle state the closure that created the engine or timer saw
FreeEngine == [status |-> "free", cs |-> "idle"]

FreeTimer == [pending |-> FALSE, cs |-> "idle"]

LiveEngines == {e \in 1..MaxEngines : engines[e].status # "free"}

PendingTimers == {t \in 1..MaxTimers : timers[t].pending}

FreeEngineSlot == SetMin({e \in 1..MaxEngines : engines[e].status = "free"})

FreeTimerSlot == SetMin({t \in 1..MaxTimers : ~timers[t].pending})

\* the running one-second tickers
Tickers == (IF timerIntervalRef = "active" THEN 1 ELSE 0) + orphanIntervals

\* clearTimeout(restartTimeoutRef.current)
CancelTracked(tm) ==
    IF restartTimeoutRef \in 1..MaxTimers
    THEN [tm EXCEPT ![restartTimeoutRef] = FreeTimer]
    ELSE tm

\* recognitionRef.current.stop()
StopTracked(en) ==
    IF recognitionRef \in 1..MaxEngines
    THEN [en EXCEPT ![recognitionRef].status = "stopping"]
    ELSE en

\* setTimeout(() => { if (!isManuallyStoppedRef.current) startRecordingInternal() }, ...)
ScheduleRestart(tm, cs) == [tm EXCEPT ![FreeTimerSlot] = [pending |-> TRUE, cs |-> cs]]

\* timerIntervalRef.current = setInterval(...): the ticker the ref held keeps running
NewTicker ==
    /\ orphanIntervals' = IF timerIntervalRef = "active" /\ orphanIntervals < MaxOrphans
                          THEN orphanIntervals + 1 ELSE orphanIntervals
    /\ timerIntervalRef' = "active"

InitHook ==
    /\ apiPresent \in BOOLEAN
    /\ checkPending = TRUE
    /\ state = "idle"
    /\ isRecording = FALSE
    /\ isSupported = TRUE
    /\ error = "null"
    /\ transcript = <<>>
    /\ interimTranscript = <<>>
    /\ markers = <<>>
    /\ elapsedTime = 0
    /\ isManuallyStopped = FALSE
    /\ finalTranscript = <<>>
    /\ recognitionRef = NoRef
    /\ engines = [e \in 1..MaxEngines |-> FreeEngine]
    /\ restartTimeoutRef = NoRef
    /\ timers = [t \in 1..MaxTimers |-> FreeTimer]
    /\ timerIntervalRef = "null"
    /\ orphanIntervals = 0
    /\ userHold = FALSE
    /\ denied = FALSE
    /\ restarted = FALSE
    /\ lastResult = <<>>
    /\ lastError = "none"

\* App.tsx, handleSaveMeetingSetup: the meeting as the setup screen creates it
NewMeeting(type, attendees) ==
    [type |-> type, attendees |-> attendees, consentConfirmed |-> FALSE,
     transcriptText |-> <<>>, minutesText |-> <<>>, actions |-> <<>>]

\* what `out' holds before the compiler has run
NoOut == [ran |-> FALSE]

\* RecordingScreen mounts on the current meeting, which is a new one or one
\* that an earlier visit of the screen has left with its consent flag set
InitScreen ==
    /\ \E c \in BOOLEAN :
           meeting = [NewMeeting("team", <<>>) EXCEPT !.consentConfirmed = c]
    /\ consentChecked = meeting.consentConfirmed
    /\ showConsentError = FALSE
    /\ onScreen = TRUE

InitMinutes ==
    /\ compiler = "minutesGenerator"
    /\ parsed = <<>>
    /\ out = NoOut

Init == InitHook /\ InitScreen /\ InitMinutes

-----------------------------------------------------------------------------
(* The hook's callbacks *)

\* the mount effect: setTimeout(checkSupport, 100)
checkSupport ==
    /\ checkPending
    /\ checkPending' = FALSE
    /\ isSupported' = apiPresent
    /\ error' = IF apiPresent THEN error ELSE "not-supported-use-chrome"
    /\ lastResult' = <<>> /\ lastError' = "none"
    /\ UNCHANGED << apiPresent, state, isRecording, transcript, interimTranscript,
                    markers, elapsedTime, isManuallyStopped, finalTranscript,
                    recognitionRef, engines, restartTimeoutRef, timers,
                    timerIntervalRef, orphanIntervals, userHold, denied, restarted >>

resetTranscript ==
    /\ transcript' = <<>>
    /\ interimTranscript' = <<>>
    /\ finalTranscript' = <<>>
    /\ lastResult' = <<>> /\ lastError' = "none"
    /\ UNCHANGED << apiPresent, checkPending, state, isRecording, isSupported, error,
                    markers, elapsedTime, isManuallyStopped, recognitionRef, engines,
                    restartTimeoutRef, timers, timerIntervalRef, orphanIntervals,
                    userHold, denied, restarted >>

resetRecording ==
    /\ transcript' = <<>>
    /\ interimTranscript' = <<>>
    /\ finalTranscript' = <<>>
    /\ markers' = <<>>
    /\ elapsedTime' = 0
    /\ state' = "idle"
    /\ error' = "null"
    /\ lastResult' = <<>> /\ lastError' = "none"
    /\ UNCHANGED << apiPresent, checkPending, isRecording, isSupported,
                    isManuallyStopped, recognitionRef, engines, restartTimeoutRef,
                    timers, timerIntervalRef, orphanIntervals, userHold, denied,
                    restarted >>

stopRecording ==
    /\ isManuallyStopped' = TRUE
    /\ timers' = CancelTracked(timers)
    /\ restartTimeoutRef' = NoRef
    /\ timerIntervalRef' = "null"
    /\ engines' = StopTracked(engines)
    /\ isRecording' = FALSE
    /\ interimTranscript' = <<>>
    /\ state' = "stopped"
    /\ userHold' = TRUE
    /\ lastResult' = <<>> /\ lastError' = "none"
    /\ UNCHANGED << apiPresent, checkPending, isSupported, error, transcript, markers,
                    elapsedTime, finalTranscript, recognitionRef, orphanIntervals,
                    denied, restarted >>

\* pauseRecording without clearInterval(timerIntervalRef.current)
pauseRecording_keepsTicker ==
    /\ isManuallyStopped' = TRUE
    /\ timers' = CancelTracked(timers)
    /\ restartTimeoutRef' = NoRef
    /\ engines' = StopTracked(engines)
    /\ isRecording' = FALSE
    /\ state' = "paused"
    /\ userHold' = TRUE
    /\ lastResult' = <<>> /\ lastError' = "none"
    /\ UNCHANGED << apiPresent, checkPending, isSupported, error, transcript,
                    interimTranscript, markers, elapsedTime, finalTranscript,
                    recognitionRef, orphanIntervals, denied, restarted,
                    timerIntervalRef >>

pauseRecording ==
    /\ isManuallyStopped' = TRUE
    /\ timers' = CancelTracked(timers)
    /\ restartTimeoutRef' = NoRef
    /\ engines' = StopTracked(engines)
    /\ timerIntervalRef' = IF timerIntervalRef = "active" THEN "cleared"
                           ELSE timerIntervalRef
    /\ isRecording' = FALSE
    /\ state' = "paused"
    /\ userHold' = TRUE
    /\ lastResult' = <<>> /\ lastError' = "none"
    /\ UNCHANGED << apiPresent, checkPending, isSupported, error, transcript,
                    interimTranscript, markers, elapsedTime, finalTranscript,
                    recognitionRef, orphanIntervals, denied, restarted >>

\* startRecordingInternal of the closure that saw lifecycle state cs.  A fresh
\* engine object is created and started; the caller sets the other variables.
startRecordingInternal(cs) ==
    IF ~apiPresent
    THEN /\ error' = "not-supported"
         /\ isSupported' = FALSE
         /\ UNCHANGED << engines, recognitionRef >>
    ELSE /\ LiveEngines # 1..MaxEngines
         /\ error' = "null"
         /\ engines' = [engines EXCEPT ![FreeEngineSlot] =
                           [status |-> "starting", cs |-> cs]]
         /\ recognitionRef' = FreeEngineSlot
         /\ UNCHANGED isSupported

\* resumeRecording is memoised with no dependencies: it keeps the
\* startRecordingInternal of the first render, whose state is 'idle'
resumeRecording ==
    /\ isManuallyStopped' = FALSE
    /\ state' = "recording"
    /\ NewTicker
    /\ startRecordingInternal("idle")
    /\ userHold' = FALSE
    /\ denied' = FALSE
    /\ restarted' = FALSE
    /\ lastResult' = <<>> /\ lastError' = "none"
    /\ UNCHANGED << apiPresent, checkPending, isRecording, transcript,
                    interimTranscript, markers, elapsedTime, finalTranscript,
                    restartTimeoutRef, timers >>

\* addMarker putting the new marker in front of the list
addMarker_prepends(type) ==
    /\ markers' = << [timestamp |-> elapsedTime, type |-> type] >> \o markers
    /\ lastResult' = <<>> /\ lastError' = "none"
    /\ UNCHANGED << apiPresent, checkPending, state, isRecording, isSupported, error,
                    transcript, interimTranscript, elapsedTime, isManuallyStopped,
                    finalTranscript, recognitionRef, engines, restartTimeoutRef,
                    timers, timerIntervalRef, orphanIntervals, userHold, denied,
                    restarted >>

addMarker(type) ==
    /\ markers' = Append(markers, [timestamp |-> elapsedTime, type |-> type])
    /\ lastResult' = <<>> /\ lastError' = "none"
    /\ UNCHANGED << apiPresent, checkPending, state, isRecording, isSupported, error,
                    transcript, interimTranscript, elapsedTime, isManuallyStopped,
                    finalTranscript, recognitionRef, engines, restartTimeoutRef,
                    timers, timerIntervalRef, orphanIntervals, userHold, denied,
                    restarted >>

\* startRecording is memoised on startRecordingInternal, which is memoised on
\* state: the engine it starts keeps the lifecycle state of the moment of the call
startRecording ==
    IF ~apiPresent
    THEN /\ error' = "not-supported-in-browser"
         /\ isSupported' = FALSE
         /\ lastResult' = <<>> /\ lastError' = "none"
         /\ UNCHANGED << apiPresent, checkPending, state, isRecording, transcript,
                         interimTranscript, markers, elapsedTime, isManuallyStopped,
                         finalTranscript, recognitionRef, engines, restartTimeoutRef,
                         timers, timerIntervalRef, orphanIntervals, userHold, denied,
                         restarted >>
    ELSE /\ finalTranscript' = <<>>
         /\ isManuallyStopped' = FALSE
         /\ markers' = <<>>
         /\ elapsedTime' = 0
         /\ state' = "recording"
         /\ NewTicker
         /\ startRecordingInternal(state)
         /\ userHold' = FALSE
         /\ denied' = FALSE
         /\ restarted' = FALSE
         /\ lastResult' = <<>> /\ lastError' = "none"
         /\ UNCHANGED << apiPresent, checkPending, isRecording, transcript,
                         interimTranscript, restartTimeoutRef, timers >>

\* one tick of a running setInterval
tick ==
    /\ Tickers > 0
    /\ elapsedTime < MaxElapsed
    /\ elapsedTime' = elapsedTime + 1
    /\ lastResult' = <<>> /\ lastError' = "none"
    /\ UNCHANGED << apiPresent, checkPending, state, isRecording, isSupported, error,
                    transcript, interimTranscript, markers, isManuallyStopped,
                    finalTranscript, recognitionRef, engines, restartTimeoutRef,
                    timers, timerIntervalRef, orphanIntervals, userHold, denied,
                    restarted >>

-----------------------------------------------------------------------------
(* The engine's callbacks *)

onstart(e) ==
    /\ engines[e].status = "starting"
    /\ engines' = [engines EXCEPT ![e].status = "running"]
    /\ isRecording' = TRUE
    /\ error' = "null"
    /\ lastResult' = <<>> /\ lastError' = "none"
    /\ UNCHANGED << apiPresent, checkPending, state, isSupported, transcript,
                    interimTranscript, markers, elapsedTime, isManuallyStopped,
                    finalTranscript, recognitionRef, restartTimeoutRef, timers,
                    timerIntervalRef, orphanIntervals, userHold, denied, restarted >>

\* CommitStep with the new content assigned instead of appended
CommitStep_assigns(currentFinal, finalTextFromThisEvent) ==
    LET newContent == extractNewContent(finalTextFromThisEvent, currentFinal)
    IN  IF Trim(finalTextFromThisEvent) # <<>> /\ newContent # <<>>
        THEN newContent
        ELSE currentFinal

\* onresult, the commit step: what final text ev makes of the committed transcript
CommitStep(currentFinal, finalTextFromThisEvent) ==
    LET newContent == extractNewContent(finalTextFromThisEvent, currentFinal)
        separator == IF currentFinal # <<>> /\ ~EndsWith(currentFinal, << " " >>)
                     THEN << " " >> ELSE <<>>
    IN  IF Trim(finalTextFromThisEvent) # <<>> /\ newContent # <<>>
        THEN currentFinal \o separator \o newContent
        ELSE currentFinal

\* onresult from setInterimTranscript(interim) on: the preview and the commit
onresultBody(ev) ==
    /\ interimTranscript' = InterimOf(ev)
    /\ finalTranscript' = CommitStep(finalTranscript, FinalTextOf(ev))
    /\ transcript' = IF finalTranscript' # finalTranscript
                     THEN Trim(finalTranscript') ELSE transcript

\* onresult's second debug block logs newContent, a name that is declared only
\* further down, inside the block of the if statement: no binding is in scope
\* where it is read, so reading it raises a ReferenceError and the handler ends
\* there, before setInterimTranscript
DebugLogThrows == TRUE

\* results come from an engine that has started, also after stop() (its flush)
onresult(e, ev) ==
    /\ engines[e].status \in {"running", "stopping"}
    /\ IF DebugLogThrows
       THEN UNCHANGED << interimTranscript, finalTranscript, transcript >>
       ELSE onresultBody(ev)
    /\ lastResult' = ev /\ lastError' = "none"
    /\ UNCHANGED << apiPresent, checkPending, state, isRecording, isSupported, error,
                    markers, elapsedTime, isManuallyStopped, recognitionRef, engines,
                    restartTimeoutRef, timers, timerIntervalRef, orphanIntervals,
                    userHold, denied, restarted >>

\* onNotAllowed without isManuallyStoppedRef.current = true
onNotAllowed_keepsFlag ==
    /\ error' = "permission-denied"
    /\ isRecording' = FALSE
    /\ UNCHANGED isManuallyStopped

\* onerror, the 'not-allowed' branch
onNotAllowed ==
    /\ error' = "permission-denied"
    /\ isRecording' = FALSE
    /\ isManuallyStopped' = TRUE

\* Ignored with 'no-speech' left out: only 'aborted' returns early
Ignored_abortedOnly(kind) == kind = "aborted"

\* onerror, the kinds it returns on before setError
Ignored(kind) == kind \in {"no-speech", "aborted"}

onerror(e, kind) ==
    /\ engines[e].status # "free"
    /\ lastResult' = <<>> /\ lastError' = kind
    /\ CASE Ignored(kind) ->
              UNCHANGED << error, isRecording, isManuallyStopped, denied,
                           timers, restartTimeoutRef >>
         [] kind = "not-allowed" ->
              /\ onNotAllowed
              /\ denied' = TRUE
              /\ UNCHANGED << timers, restartTimeoutRef >>
         [] OTHER ->
              /\ error' = kind
              /\ IF ~isManuallyStopped /\ kind \in {"network", "service-not-allowed"}
                 THEN /\ PendingTimers # 1..MaxTimers
                      /\ timers' = ScheduleRestart(timers, engines[e].cs)
                      /\ restartTimeoutRef' = FreeTimerSlot
                 ELSE UNCHANGED << timers, restartTimeoutRef >>
              /\ UNCHANGED << isRecording, isManuallyStopped, denied >>
    /\ UNCHANGED << apiPresent, checkPending, state, isSupported, transcript,
                    interimTranscript, markers, elapsedTime, finalTranscript,
                    recognitionRef, engines, timerIntervalRef, orphanIntervals,
                    userHold, restarted >>

\* onend reads the state of the closure that created the engine, not the current one
onend(e) ==
    /\ engines[e].status # "free"
    /\ engines' = [engines EXCEPT ![e] = FreeEngine]
    /\ recognitionRef' = IF recognitionRef = e THEN DeadRef ELSE recognitionRef
    /\ isRecording' = FALSE
    /\ interimTranscript' = <<>>
    /\ IF ~isManuallyStopped /\ engines[e].cs \notin {"paused", "stopped"}
       THEN /\ PendingTimers # 1..MaxTimers
            /\ timers' = ScheduleRestart(timers, engines[e].cs)
            /\ restartTimeoutRef' = FreeTimerSlot
       ELSE UNCHANGED << timers, restartTimeoutRef >>
    /\ lastResult' = <<>> /\ lastError' = "none"
    /\ UNCHANGED << apiPresent, checkPending, state, isSupported, error, transcript,
                    markers, elapsedTime, isManuallyStopped, finalTranscript,
                    timerIntervalRef, orphanIntervals, userHold, denied, restarted >>

\* RestartAllowed with the check left out
RestartAllowed_unchecked == TRUE

\* the check a restart timeout makes when it runs: !isManuallyStoppedRef.current
RestartAllowed == ~isManuallyStopped

\* a restart timeout runs: if (!isManuallyStoppedRef.current) startRecordingInternal()
restartTimeout(t) ==
    /\ timers[t].pending
    /\ timers' = [timers EXCEPT ![t] = FreeTimer]
    /\ restartTimeoutRef' = IF restartTimeoutRef = t THEN DeadRef ELSE restartTimeoutRef
    /\ IF RestartAllowed
       THEN /\ startRecordingInternal(timers[t].cs)
            /\ restarted' = apiPresent
       ELSE UNCHANGED << error, isSupported, engines, recognitionRef, restarted >>
    /\ lastResult' = <<>> /\ lastError' = "none"
    /\ UNCHANGED << apiPresent, checkPending, state, isRecording, transcript,
                    interimTranscript, markers, elapsedTime, isManuallyStopped,
                    finalTranscript, timerIntervalRef, orphanIntervals, userHold,
                    denied >>

-----------------------------------------------------------------------------
(* The program: the hook driven through the controls of RecordingScreen,   *)
(* which offers each call only in some lifecycle states, and the engine,   *)
(* the timeouts and the mount effect acting on it.  Spec leaves the clock  *)
(* and the markers alone; SpecClock follows them too.                      *)

\* RecordingScreen, the effect that saves the transcript: it runs after every
\* render, and writes when the session is stopped and the transcript not empty
SaveEffect ==
    meeting' = IF state' = "stopped" /\ transcript' # <<>>
               THEN [meeting EXCEPT !.transcriptText = transcript',
                                    !.consentConfirmed = consentChecked']
               ELSE meeting

\* what a step of the hook leaves of RecordingScreen, which renders after it
Rendered == UNCHANGED screenVars /\ SaveEffect /\ UNCHANGED minutesVars

\* a step A of the hook while RecordingScreen is mounted
Mounted(A) == onScreen /\ A /\ Rendered

EngineStep ==
    \/ \E e \in 1..MaxEngines : Mounted(onstart(e))
    \/ \E e \in 1..MaxEngines, ev \in HookEvents : Mounted(onresult(e, ev))
    \/ \E e \in 1..MaxEngines, kind \in ErrorKinds : Mounted(onerror(e, kind))
    \/ \E e \in 1..MaxEngines : Mounted(onend(e))
    \/ \E t \in 1..MaxTimers : Mounted(restartTimeout(t))

\* handleStartRecording with the consent test left out
handleStartRecording_unchecked ==
    /\ showConsentError' = FALSE
    /\ startRecording
    /\ UNCHANGED << consentChecked, onScreen >>

handleStartRecording ==
    IF ~consentChecked
    THEN /\ showConsentError' = TRUE
         /\ lastResult' = <<>> /\ lastError' = "none"
         /\ UNCHANGED << hookState, consentChecked, onScreen >>
    ELSE /\ showConsentError' = FALSE
         /\ startRecording
         /\ UNCHANGED << consentChecked, onScreen >>

\* the consent checkbox, onChange
setConsent(checked) ==
    /\ consentChecked' = checked
    /\ showConsentError' = FALSE
    /\ lastResult' = <<>> /\ lastError' = "none"
    /\ UNCHANGED << hookState, onScreen >>

\* handleContinue: the meeting is written and the screen is left; the hook's
\* unmount cleanup ends the engine and the timers with it
handleContinue ==
    /\ meeting' = [meeting EXCEPT !.transcriptText = transcript,
                                  !.consentConfirmed = consentChecked]
    /\ onScreen' = FALSE
    /\ lastResult' = <<>> /\ lastError' = "none"
    /\ UNCHANGED << hookState, consentChecked, showConsentError, minutesVars >>

\* RecordingScreen: the controls rendered in each lifecycle state; none when
\* isSupported is false
ScreenStep ==
    \/ onScreen /\ isSupported /\ state = "idle" /\ handleStartRecording
           /\ SaveEffect /\ UNCHANGED minutesVars
    \/ \E checked \in BOOLEAN :
           onScreen /\ isSupported /\ state = "idle" /\ setConsent(checked)
               /\ SaveEffect /\ UNCHANGED minutesVars
    \/ isSupported /\ state = "recording" /\ Mounted(pauseRecording)
    \/ isSupported /\ state \in {"recording", "paused"} /\ Mounted(stopRecording)
    \/ isSupported /\ state = "paused" /\ Mounted(resumeRecording)
    \/ isSupported /\ state = "stopped" /\ Mounted(resetRecording)
    \/ onScreen /\ isSupported /\ state = "stopped" /\ handleContinue

\* RecordingScreen: the marker buttons, rendered while recording or paused
MarkerStep ==
    \E type \in MarkerTypes :
        /\ Len(markers) < MaxMarkers
        /\ isSupported /\ state \in {"recording", "paused"} /\ Mounted(addMarker(type))

Next == Mounted(checkSupport) \/ ScreenStep \/ EngineStep

Spec == Init /\ [][Next]_vars

NextClock == Next \/ MarkerStep \/ Mounted(tick)

SpecClock == Init /\ [][NextClock]_vars

-----------------------------------------------------------------------------
(* The hook called by any caller, in any lifecycle state *)

\* the hook's callers here are not RecordingScreen: nothing of it changes
NoScreen == UNCHANGED << screenVars, meeting, minutesVars >>

NextApi ==
    \/ checkSupport /\ NoScreen
    \/ startRecording /\ NoScreen
    \/ stopRecording /\ NoScreen
    \/ pauseRecording /\ NoScreen
    \/ resumeRecording /\ NoScreen
    \/ resetRecording /\ NoScreen
    \/ resetTranscript /\ NoScreen
    \/ \E e \in 1..MaxEngines : onstart(e) /\ NoScreen
    \/ \E e \in 1..MaxEngines : onend(e) /\ NoScreen
    \/ \E t \in 1..MaxTimers : restartTimeout(t) /\ NoScreen

SpecApi == Init /\ [][NextApi]_vars

-----------------------------------------------------------------------------
(* The deduplication on its own: the part of onresult that follows the     *)
(* debug block, fed every final text up to MaxTextLen characters           *)

InitDedup == Init /\ apiPresent /\ ~consentChecked

DedupResult(ev) ==
    /\ onresultBody(ev)
    /\ Len(finalTranscript') <= MaxCommitLen
    /\ lastResult' = ev /\ lastError' = "none"
    /\ UNCHANGED << apiPresent, checkPending, state, isRecording, isSupported, error,
                    markers, elapsedTime, isManuallyStopped, recognitionRef, engines,
                    restartTimeoutRef, timers, timerIntervalRef, orphanIntervals,
                    userHold, denied, restarted >>

NextDedup ==
    \/ \E ev \in DedupEvents : DedupResult(ev) /\ NoScreen
    \/ resetTranscript /\ NoScreen

SpecDedup == InitDedup /\ [][NextDedup]_vars

-----------------------------------------------------------------------------
(* The regular expressions of minutesGenerator.ts, each under the number of its line *)

\* /\s+/g
RxMG552 ==
    << Ws1 >>

\* /\b(um|uh|ah|er|hm|like|you know|I mean|sort of|kind of|ba.../gi
RxMG603 ==
    << WordB, Alt(<< << LitI("um") >>, << LitI("uh") >>, << LitI("ah") >>,
      << LitI("er") >>, << LitI("hm") >>, << LitI("like") >>,
      << LitI("you know") >>, << LitI("i mean") >>, << LitI("sort of") >>,
      << LitI("kind of") >>, << LitI("basically") >>,
      << LitI("literally") >>, << LitI("actually") >>,
      << LitI("honestly") >>, << LitI("right") >>, << LitI("okay") >>,
      << LitI("ok") >>, << LitI("well") >> >>), WordB >>

\* /\s{2,}/g
RxMG604 ==
    << Rep(SpaceCh, 2, Unbounded) >>

\* /^(?:hello|hi|hey|welcome|good morning|good afternoon|good.../i
RxMG612 ==
    << Bos, Alt(<< << LitI("hello") >>, << LitI("hi") >>, << LitI("hey") >>,
      << LitI("welcome") >>, << LitI("good morning") >>,
      << LitI("good afternoon") >>, << LitI("good evening") >> >>),
      Rep(SpaceCh \cup {",", "."}, 1, Unbounded) >>

\* /(?:thank you|thanks)\s+(?:for\s+)?(?:coming|joining|atten.../gi
RxMG613 ==
    << Alt(<< << LitI("thank you") >>, << LitI("thanks") >> >>), Ws1,
      Opt(<< Alt(<< << LitI("for"), Ws1 >> >>) >>),
      Alt(<< << LitI("coming") >>, << LitI("joining") >>,
      << LitI("attending") >> >>), Rep(SpaceCh \cup {",", "."}, 0,
      Unbounded) >>

\* /\s+first\s+point\s+is\s*/gi
RxMG616 ==
    << Ws1, LitI("first"), Ws1, LitI("point"), Ws1, LitI("is"), Ws0 >>

\* /\s+first\s+of\s+all\s*/gi
RxMG617 ==
    << Ws1, LitI("first"), Ws1, LitI("of"), Ws1, LitI("all"), Ws0 >>

\* /\s+also\s+/gi
RxMG618 ==
    << Ws1, LitI("also"), Ws1 >>

\* /\s+additionally\s+/gi
RxMG619 ==
    << Ws1, LitI("additionally"), Ws1 >>

\* /\s+furthermore\s+/gi
RxMG620 ==
    << Ws1, LitI("furthermore"), Ws1 >>

\* /\s+moreover\s+/gi
RxMG621 ==
    << Ws1, LitI("moreover"), Ws1 >>

\* /\s+however\s+/gi
RxMG622 ==
    << Ws1, LitI("however"), Ws1 >>

\* /\s+that\s+said\s*/gi
RxMG623 ==
    << Ws1, LitI("that"), Ws1, LitI("said"), Ws0 >>

\* /\s+on\s+the\s+other\s+hand\s*/gi
RxMG624 ==
    << Ws1, LitI("on"), Ws1, LitI("the"), Ws1, LitI("other"), Ws1,
      LitI("hand"), Ws0 >>

\* /\s+in\s+addition\s+/gi
RxMG625 ==
    << Ws1, LitI("in"), Ws1, LitI("addition"), Ws1 >>

\* /\s+another\s+point\s+/gi
RxMG626 ==
    << Ws1, LitI("another"), Ws1, LitI("point"), Ws1 >>

\* /\s+next\s+/gi
RxMG627 ==
    << Ws1, LitI("next"), Ws1 >>

\* /\s+moving\s+on\s*/gi
RxMG628 ==
    << Ws1, LitI("moving"), Ws1, LitI("on"), Ws0 >>

\* /\s+finally\s+/gi
RxMG629 ==
    << Ws1, LitI("finally"), Ws1 >>

\* /\s+lastly\s+/gi
RxMG630 ==
    << Ws1, LitI("lastly"), Ws1 >>

\* /\s+and\s+then\s+/gi
RxMG631 ==
    << Ws1, LitI("and"), Ws1, LitI("then"), Ws1 >>

\* /\s+so\s+/gi
RxMG632 ==
    << Ws1, LitI("so"), Ws1 >>

\* /\s+but\s+/gi
RxMG633 ==
    << Ws1, LitI("but"), Ws1 >>

\* /\s+I\s+need\s+you\s+/gi
RxMG636 ==
    << Ws1, LitI("i"), Ws1, LitI("need"), Ws1, LitI("you"), Ws1 >>

\* /\s+I\s+want\s+you\s+/gi
RxMG637 ==
    << Ws1, LitI("i"), Ws1, LitI("want"), Ws1, LitI("you"), Ws1 >>

\* /\s+we\s+need\s+to\s+/gi
RxMG638 ==
    << Ws1, LitI("we"), Ws1, LitI("need"), Ws1, LitI("to"), Ws1 >>

\* /\s+you\s+need\s+to\s+/gi
RxMG639 ==
    << Ws1, LitI("you"), Ws1, LitI("need"), Ws1, LitI("to"), Ws1 >>

\* /\s+it\s+was\s+(?:decided|agreed|resolved)\s*/gi
RxMG642 ==
    << Ws1, LitI("it"), Ws1, LitI("was"), Ws1, Alt(<< << LitI("decided") >>,
      << LitI("agreed") >>, << LitI("resolved") >> >>), Ws0 >>

\* /\s+we\s+(?:decided|agreed|resolved)\s*/gi
RxMG643 ==
    << Ws1, LitI("we"), Ws1, Alt(<< << LitI("decided") >>,
      << LitI("agreed") >>, << LitI("resolved") >> >>), Ws0 >>

\* /\.\s*/g
RxMG649 ==
    << Lit("."), Ws0 >>

\* /[.!?]+/
RxMG656 ==
    << Rep({".", "!", "?"}, 1, Unbounded) >>

\* /\s+(?:and|but|also)\s+/i
RxMG663 ==
    << Ws1, Alt(<< << LitI("and") >>, << LitI("but") >>,
      << LitI("also") >> >>), Ws1 >>

\* /\b(need|want|must|require|ensure|make sure|complete|finis.../
RxMG679 ==
    << WordB, Alt(<< << Lit("need") >>, << Lit("want") >>, << Lit("must") >>,
      << Lit("require") >>, << Lit("ensure") >>, << Lit("make sure") >>,
      << Lit("complete") >>, << Lit("finish") >>, << Lit("submit") >>,
      << Lit("review") >>, << Lit("send") >>, << Lit("prepare") >>,
      << Lit("update") >>, << Lit("check") >>, << Lit("arrange") >>,
      << Lit("organize") >>, << Lit("deliver") >>, << Lit("provide") >>,
      << Lit("create") >>, << Lit("implement") >>, << Lit("follow") >>,
      << Lit("monitor") >>, << Lit("track") >>, << Lit("report") >>,
      << Lit("address") >>, << Lit("handle") >>, << Lit("resolve") >>,
      << Lit("fix") >>, << Lit("improve") >>, << Lit("increase") >>,
      << Lit("reduce") >>, << Lit("maintain") >>, << Lit("achieve") >>,
      << Lit("meet") >>, << Lit("reach") >>, << Lit("establish") >>,
      << Lit("set up") >>, << Lit("schedule") >>, << Lit("plan") >>,
      << Lit("coordinate") >>, << Lit("communicate") >>, << Lit("inform") >>,
      << Lit("notify") >>, << Lit("contact") >>, << Lit("call") >>,
      << Lit("email") >>, << Lit("share") >>, << Lit("distribute") >>,
      << Lit("present") >>, << Lit("demonstrate") >>, << Lit("explain") >>,
      << Lit("train") >>, << Lit("guide") >>, << Lit("assist") >>,
      << Lit("help") >>, << Lit("support") >>, << Lit("manage") >>,
      << Lit("lead") >>, << Lit("direct") >>, << Lit("oversee") >>,
      << Lit("supervise") >>, << Lit("delegate") >>, << Lit("assign") >>,
      << Lit("allocate") >>, << Lit("approve") >>, << Lit("authorize") >>,
      << Lit("sign") >>, << Lit("confirm") >>, << Lit("verify") >>,
      << Lit("validate") >>, << Lit("test") >>, << Lit("audit") >>,
      << Lit("inspect") >>, << Lit("assess") >>, << Lit("evaluate") >>,
      << Lit("measure") >>, << Lit("analyze") >>, << Lit("research") >>,
      << Lit("investigate") >>, << Lit("find") >>, << Lit("identify") >>,
      << Lit("determine") >> >>), WordB >>

\* /^(?:and|so|but|then)\s+/i
RxMG681 ==
    << WordB, Alt(<< << Lit("you") >>, << Lit("we") >>, << Lit("I") >>,
      << Lit("team") >>, << Lit("staff") >>, << Lit("manager") >>,
      << Lit("employee") >>, << Lit("everyone") >> >>), WordB >>

RxMG689 ==
    << Bos, Alt(<< << LitI("and") >>, << LitI("so") >>, << LitI("but") >>,
      << LitI("then") >> >>), Ws1 >>

\* /\bI\s+(?:need|want)\s+(?:you\s+guys|you\s+all|you)\s+to\b/gi
RxMG693 ==
    << WordB, LitI("i"), Ws1, Alt(<< << LitI("need") >>,
      << LitI("want") >> >>), Ws1, Alt(<< << LitI("you"), Ws1,
      LitI("guys") >>, << LitI("you"), Ws1, LitI("all") >>,
      << LitI("you") >> >>), Ws1, LitI("to"), WordB >>

\* /\bwe\s+need\s+to\b/gi
RxMG694 ==
    << WordB, LitI("we"), Ws1, LitI("need"), Ws1, LitI("to"), WordB >>

\* /\byou\s+(?:need|must)\s+to\b/gi
RxMG695 ==
    << WordB, LitI("you"), Ws1, Alt(<< << LitI("need") >>,
      << LitI("must") >> >>), Ws1, LitI("to"), WordB >>

\* /\bmake\s+sure\s+(?:you\s+)?/gi
RxMG696 ==
    << WordB, LitI("make"), Ws1, LitI("sure"), Ws1,
      Opt(<< Alt(<< << LitI("you"), Ws1 >> >>) >>) >>

\* /\bensure\s+(?:you\s+)?/gi
RxMG697 ==
    << WordB, LitI("ensure"), Ws1, Opt(<< Alt(<< << LitI("you"),
      Ws1 >> >>) >>) >>

\* /\byou guys\b/gi
RxMG700 ==
    << WordB, LitI("you guys"), WordB >>

\* /\byou\b/gi
RxMG701 ==
    << WordB, LitI("you"), WordB >>

\* /\b(?:on time|not be late|cannot be late|arrive early|come.../i
RxMG704 ==
    << WordB, Alt(<< << LitI("on time") >>, << LitI("not be late") >>,
      << LitI("cannot be late") >>, << LitI("arrive early") >>,
      << LitI("come early") >>, << LitI("punctual") >> >>), WordB >>

\* /\b(?:be|arrive|come)\s+(?:on time|punctually|early)\b/gi
RxMG706 ==
    << WordB, Alt(<< << LitI("be") >>, << LitI("arrive") >>,
      << LitI("come") >> >>), Ws1, Alt(<< << LitI("on time") >>,
      << LitI("punctually") >>, << LitI("early") >> >>), WordB >>

\* /\b(?:not be late|cannot be late|don't be late)\b/gi
RxMG707 ==
    << WordB, Alt(<< << LitI("not be late") >>, << LitI("cannot be late") >>,
      << LitI("don't be late") >> >>), WordB >>

\* /\b10\s+minutes\s+(?:early|earlier)\b/gi
RxMG708 ==
    << WordB, Lit("10"), Ws1, LitI("minutes"), Ws1,
      Alt(<< << LitI("early") >>, << LitI("earlier") >> >>), WordB >>

\* /\s{2,}/g
RxMG709 ==
    << Rep(SpaceCh, 2, Unbounded) >>

\* /\s+(?:or something|or whatever|etc|so on|maybe).*$/i
RxMG713 ==
    << Ws1, Alt(<< << LitI("or something") >>, << LitI("or whatever") >>,
      << LitI("etc") >>, << LitI("so on") >>, << LitI("maybe") >> >>),
      AnyRest, Eos >>

\* /[.!?;,]+$/
RxMG724 ==
    << Rep({".", "!", "?", ";", ","}, 1, Unbounded), Eos >>

\* /\b(?:I will|I'll|I shall)\b/i
RxMG728 ==
    << WordB, Alt(<< << LitI("i will") >>, << LitI("i'll") >>,
      << LitI("i shall") >> >>), WordB >>

\* /\b(?:we will|we'll)\b/i
RxMG729 ==
    << WordB, Alt(<< << LitI("we will") >>, << LitI("we'll") >> >>), WordB >>

\* /\b(?:by|before|due|for)\s+(tomorrow|today|next week|Monda.../i
RxMG733 ==
    << WordB, Alt(<< << LitI("by") >>, << LitI("before") >>,
      << LitI("due") >>, << LitI("for") >> >>), Ws1,
      Alt(<< << LitI("tomorrow") >>, << LitI("today") >>,
      << LitI("next week") >>, << LitI("monday") >>, << LitI("tuesday") >>,
      << LitI("wednesday") >>, << LitI("thursday") >>, << LitI("friday") >>,
      << LitI("the end of the week") >>, << LitI("eob") >>,
      << LitI("eod") >> >>), WordB >>

\* /\b(?:decided|agreed|resolved|concluded|approved|confirmed.../i
RxMG745 ==
    << WordB, Alt(<< << LitI("decided") >>, << LitI("agreed") >>,
      << LitI("resolved") >>, << LitI("concluded") >>,
      << LitI("approved") >>, << LitI("confirmed") >>,
      << LitI("determined") >> >>), WordB >>

\* /^(?:it\s+was|we|I|the\s+team)\s+(?:was\s+)?(?:decided|agr.../i
RxMG750 ==
    << Bos, Alt(<< << LitI("it"), Ws1, LitI("was") >>, << LitI("we") >>,
      << LitI("i") >>, << LitI("the"), Ws1, LitI("team") >> >>), Ws1,
      Opt(<< Alt(<< << LitI("was"), Ws1 >> >>) >>),
      Alt(<< << LitI("decided") >>, << LitI("agreed") >>,
      << LitI("resolved") >>, << LitI("concluded") >>,
      << LitI("approved") >>, << LitI("confirmed") >>,
      << LitI("determined") >> >>), Opt(<< Alt(<< << Ws1,
      LitI("that") >> >>) >>), Ws0 >>

\* /\b(?:the\s+)?(?:decision|agreement)\s+(?:is|was)\s+/i
RxMG751 ==
    << WordB, Opt(<< Alt(<< << LitI("the"), Ws1 >> >>) >>),
      Alt(<< << LitI("decision") >>, << LitI("agreement") >> >>), Ws1,
      Alt(<< << LitI("is") >>, << LitI("was") >> >>), Ws1 >>

\* /[.!?;,]+$/
RxMG756 ==
    << Rep({".", "!", "?", ";", ","}, 1, Unbounded), Eos >>

\* /^(?:welcome|hello|hi|hey|thanks|okay|so|well|and|the)\b/i
RxMG761 ==
    << Bos, Alt(<< << LitI("welcome") >>, << LitI("hello") >>,
      << LitI("hi") >>, << LitI("hey") >>, << LitI("thanks") >>,
      << LitI("okay") >>, << LitI("so") >>, << LitI("well") >>,
      << LitI("and") >>, << LitI("the") >> >>), WordB >>

\* /\b(?:we|I)\s+(?:discussed|talked about|went over|looked a.../gi
RxMG768 ==
    << WordB, Alt(<< << LitI("we") >>, << LitI("i") >> >>), Ws1,
      Alt(<< << LitI("discussed") >>, << LitI("talked about") >>,
      << LitI("went over") >>, << LitI("looked at") >>,
      << LitI("touched base on") >> >>), WordB >>

\* /\b(?:we|I)\s+(?:need to discuss|should discuss)\b/gi
RxMG769 ==
    << WordB, Alt(<< << LitI("we") >>, << LitI("i") >> >>), Ws1,
      Alt(<< << LitI("need to discuss") >>, << LitI("should discuss") >> >>),
      WordB >>

\* /\b(?:we|I)\s+noted\b/gi
RxMG770 ==
    << WordB, Alt(<< << LitI("we") >>, << LitI("i") >> >>), Ws1,
      LitI("noted"), WordB >>

\* /\b(?:we|I)\s+mentioned\b/gi
RxMG771 ==
    << WordB, Alt(<< << LitI("we") >>, << LitI("i") >> >>), Ws1,
      LitI("mentioned"), WordB >>

\* /\b(?:we|I)\s+explained\b/gi
RxMG772 ==
    << WordB, Alt(<< << LitI("we") >>, << LitI("i") >> >>), Ws1,
      LitI("explained"), WordB >>

\* /\bsales\s+of\b/gi
RxMG773 ==
    << WordB, LitI("sales"), Ws1, LitI("of"), WordB >>

\* /\s+(?:or something|or whatever|etc|and so on).*$/i
RxMG776 ==
    << Ws1, Alt(<< << LitI("or something") >>, << LitI("or whatever") >>,
      << LitI("etc") >>, << LitI("and so on") >> >>), AnyRest, Eos >>

\* /[.!?]$/
RxMG786 ==
    << Rep({".", "!", "?"}, 1, 1), Eos >>

\* /\b(?:sales|revenue|profit|target|client|customer|business.../
RxMG799 ==
    << WordB, Alt(<< << Lit("sales") >>, << Lit("revenue") >>,
      << Lit("profit") >>, << Lit("target") >>, << Lit("client") >>,
      << Lit("customer") >>, << Lit("business development") >>,
      << Lit("pipeline") >>, << Lit("increase sales") >>,
      << Lit("bar sales") >> >>), WordB >>

\* /\b(?:shift|schedule|attendance|punctual|late|timekeeping|.../
RxMG800 ==
    << WordB, Alt(<< << Lit("shift") >>, << Lit("schedule") >>,
      << Lit("attendance") >>, << Lit("punctual") >>, << Lit("late") >>,
      << Lit("timekeeping") >>, << Lit("roster") >>, << Lit("on time") >>,
      << Lit("on shift") >>, << Lit("arrive") >>,
      << Lit("come early") >> >>), WordB >>

\* /\b(?:budget|cost|financial|expense|spend|cash flow|invoic.../
RxMG801 ==
    << WordB, Alt(<< << Lit("budget") >>, << Lit("cost") >>,
      << Lit("financial") >>, << Lit("expense") >>, << Lit("spend") >>,
      << Lit("cash flow") >>, << Lit("invoice") >>, << Lit("money") >> >>),
      WordB >>

\* /\b(?:performance|review|training|development|career|progr.../
RxMG802 ==
    << WordB, Alt(<< << Lit("performance") >>, << Lit("review") >>,
      << Lit("training") >>, << Lit("development") >>, << Lit("career") >>,
      << Lit("progress") >>, << Lit("appraisal") >> >>), WordB >>

\* /\b(?:project|deadline|delivery|milestone|timeline)\b/
RxMG803 ==
    << WordB, Alt(<< << Lit("project") >>, << Lit("deadline") >>,
      << Lit("delivery") >>, << Lit("milestone") >>,
      << Lit("timeline") >> >>), WordB >>

\* /\b(?:complaint|feedback|service|customer experience|guest)\b/
RxMG804 ==
    << WordB, Alt(<< << Lit("complaint") >>, << Lit("feedback") >>,
      << Lit("service") >>, << Lit("customer experience") >>,
      << Lit("guest") >> >>), WordB >>

\* /\b(?:safety|compliance|risk|security|health|hazard)\b/
RxMG805 ==
    << WordB, Alt(<< << Lit("safety") >>, << Lit("compliance") >>,
      << Lit("risk") >>, << Lit("security") >>, << Lit("health") >>,
      << Lit("hazard") >> >>), WordB >>

\* /\b(?:operation|process|procedure|system|workflow)\b/
RxMG806 ==
    << WordB, Alt(<< << Lit("operation") >>, << Lit("process") >>,
      << Lit("procedure") >>, << Lit("system") >>, << Lit("workflow") >> >>),
      WordB >>

\* /\b(?:food|beverage|menu|kitchen|bar|drink)\b/
RxMG807 ==
    << WordB, Alt(<< << Lit("food") >>, << Lit("beverage") >>,
      << Lit("menu") >>, << Lit("kitchen") >>, << Lit("bar") >>,
      << Lit("drink") >> >>), WordB >>

\* /\b(?:staff|hiring|recruitment|vacancy|turnover)\b/
RxMG808 ==
    << WordB, Alt(<< << Lit("staff") >>, << Lit("hiring") >>,
      << Lit("recruitment") >>, << Lit("vacancy") >>,
      << Lit("turnover") >> >>), WordB >>

-----------------------------------------------------------------------------
(* The regular expressions of exportService.ts, each under the number of its line *)

\* /[.!?]+$/
RxES612 ==
    << Rep({".", "!", "?"}, 1, Unbounded), Eos >>

\* /\s+/g
RxES650 ==
    << Ws1 >>

\* /\b(um|uh|ah|er|hm|like|you know|I mean|sort of|kind of|ba.../gi
RxES652 ==
    << WordB, Alt(<< << LitI("um") >>, << LitI("uh") >>, << LitI("ah") >>,
      << LitI("er") >>, << LitI("hm") >>, << LitI("like") >>,
      << LitI("you know") >>, << LitI("i mean") >>, << LitI("sort of") >>,
      << LitI("kind of") >>, << LitI("basically") >>,
      << LitI("literally") >>, << LitI("actually") >>,
      << LitI("honestly") >>, << LitI("right so") >>, << LitI("so yeah") >>,
      << LitI("yeah so") >> >>), WordB >>

\* /\s{2,}/g
RxES657 ==
    << Rep(SpaceCh, 2, Unbounded) >>

\* /^(?:and\s+)?(?:welcome|hello|hi|hey|good morning|good aft.../i
RxES665 ==
    << Bos, Opt(<< Alt(<< << LitI("and"), Ws1 >> >>) >>),
      Alt(<< << LitI("welcome") >>, << LitI("hello") >>, << LitI("hi") >>,
      << LitI("hey") >>, << LitI("good morning") >>,
      << LitI("good afternoon") >>, << LitI("good evening") >> >>),
      Rep(SpaceCh \cup {",", "."}, 0, Unbounded) >>

\* /^(?:thank you|thanks)\s+(?:for\s+)?(?:coming|joining|atte.../i
RxES666 ==
    << Bos, Alt(<< << LitI("thank you") >>, << LitI("thanks") >> >>), Ws1,
      Opt(<< Alt(<< << LitI("for"), Ws1 >> >>) >>),
      Alt(<< << LitI("coming") >>, << LitI("joining") >>,
      << LitI("attending") >> >>), Rep(SpaceCh \cup {",", "."}, 0,
      Unbounded) >>

\* /\b(first(?:ly)?|first of all|to start|to begin with?)\b/gi
RxES669 ==
    << WordB, Alt(<< << LitI("first"),
      Opt(<< Alt(<< << LitI("ly") >> >>) >>) >>, << LitI("first of all") >>,
      << LitI("to start") >>, << LitI("to begin wit"),
      Opt(<< LitI("h") >>) >> >>), WordB >>

\* /\b(second(?:ly)?|next(?:\s+thing)?|then|after that|follow.../gi
RxES670 ==
    << WordB, Alt(<< << LitI("second"),
      Opt(<< Alt(<< << LitI("ly") >> >>) >>) >>, << LitI("next"),
      Opt(<< Alt(<< << Ws1, LitI("thing") >> >>) >>) >>, << LitI("then") >>,
      << LitI("after that") >>, << LitI("following that") >> >>), WordB >>

\* /\b(another thing|another point|also|additionally|furtherm.../gi
RxES671 ==
    << WordB, Alt(<< << LitI("another thing") >>,
      << LitI("another point") >>, << LitI("also") >>,
      << LitI("additionally") >>, << LitI("furthermore") >>,
      << LitI("moreover") >>, << LitI("on top of that") >> >>), WordB >>

\* /\b(however|but then again|although|though|that said)\b/gi
RxES672 ==
    << WordB, Alt(<< << LitI("however") >>, << LitI("but then again") >>,
      << LitI("although") >>, << LitI("though") >>,
      << LitI("that said") >> >>), WordB >>

\* /\b(finally|lastly|to conclude|in summary|to wrap up)\b/gi
RxES673 ==
    << WordB, Alt(<< << LitI("finally") >>, << LitI("lastly") >>,
      << LitI("to conclude") >>, << LitI("in summary") >>,
      << LitI("to wrap up") >> >>), WordB >>

\* /\b(I (?:also\s+)?(?:want|need|would like) (?:to\s+)?(?:me.../gi
RxES674 ==
    << WordB, Alt(<< << LitI("i "), Opt(<< Alt(<< << LitI("also"),
      Ws1 >> >>) >>), Alt(<< << LitI("want") >>, << LitI("need") >>,
      << LitI("would like") >> >>), Lit(" "), Opt(<< Alt(<< << LitI("to"),
      Ws1 >> >>) >>), Alt(<< << LitI("mention") >>, << LitI("raise") >>,
      << LitI("highlight") >>, << LitI("flag") >>,
      << LitI("touch on") >> >>) >> >>), WordB >>

\* /\b(moving on|next item|next point|next up)\b/gi
RxES675 ==
    << WordB, Alt(<< << LitI("moving on") >>, << LitI("next item") >>,
      << LitI("next point") >>, << LitI("next up") >> >>), WordB >>

\* /(?:\.SPLIT\.|(?<=[.!?])\s+(?=[A-Z])|\n)/
RxES679 ==
    << Alt(<< << Lit(".SPLIT.") >>, << Behind({".", "!", "?"}), Ws1,
      Ahead(Range(UpperCase)) >>, << Lit("\n") >> >>) >>

\* /^\.SPLIT\.\s*/
RxES680 ==
    << Bos, Lit(".SPLIT."), Ws0 >>

\* /\s+/
RxES695 ==
    << Ws1 >>

\* /\b(that|which|who|when|where|what|how|if|because|since|al.../i
RxES698 ==
    << WordB, Alt(<< << LitI("that") >>, << LitI("which") >>,
      << LitI("who") >>, << LitI("when") >>, << LitI("where") >>,
      << LitI("what") >>, << LitI("how") >>, << LitI("if") >>,
      << LitI("because") >>, << LitI("since") >>, << LitI("although") >>,
      << LitI("while") >>, << LitI("before") >>, << LitI("after") >>,
      << LitI("during") >>, << LitI("in") >>, << LitI("on") >>,
      << LitI("at") >>, << LitI("to") >>, << LitI("for") >>,
      << LitI("with") >>, << LitI("by") >>, << LitI("about") >>,
      << LitI("into") >>, << LitI("through") >>, << LitI("under") >>,
      << LitI("again") >>, << LitI("further") >>, << LitI("once") >>,
      << LitI("and") >>, << LitI("but") >>, << LitI("or") >>,
      << LitI("so") >>, << LitI("then") >>, << LitI("also") >> >>), Ws0,
      Eos >>

\* /^(?:in one of|one of|some of|many of|most of|all of|none .../i
RxES701 ==
    << Bos, Alt(<< << LitI("in one of") >>, << LitI("one of") >>,
      << LitI("some of") >>, << LitI("many of") >>, << LitI("most of") >>,
      << LitI("all of") >>, << LitI("none of") >>, << LitI("any of") >>,
      << LitI("each of") >>, << LitI("every one of") >> >>), WordB >>

\* /\b(need|want|should|must|will|can|could|would|may|might|t.../i
RxES704 ==
    << WordB, Alt(<< << LitI("need") >>, << LitI("want") >>,
      << LitI("should") >>, << LitI("must") >>, << LitI("will") >>,
      << LitI("can") >>, << LitI("could") >>, << LitI("would") >>,
      << LitI("may") >>, << LitI("might") >>, << LitI("touch") >>,
      << LitI("discuss") >>, << LitI("review") >>, << LitI("check") >>,
      << LitI("improve") >>, << LitI("increase") >>, << LitI("decrease") >>,
      << LitI("start") >>, << LitI("begin") >>, << LitI("continue") >>,
      << LitI("finish") >>, << LitI("complete") >>, << LitI("is") >>,
      << LitI("are") >>, << LitI("was") >>, << LitI("were") >>,
      << LitI("be") >> >>), Ws0, Eos >>

\* /^(?:yes|no|yeah|nah|okay|ok|right|sure|fine|great|good|ex.../i
RxES713 ==
    << Bos, Alt(<< << LitI("yes") >>, << LitI("no") >>, << LitI("yeah") >>,
      << LitI("nah") >>, << LitI("okay") >>, << LitI("ok") >>,
      << LitI("right") >>, << LitI("sure") >>, << LitI("fine") >>,
      << LitI("great") >>, << LitI("good") >>, << LitI("excellent") >>,
      << LitI("perfect") >>, << LitI("thanks") >>, << LitI("thank you") >>,
      << LitI("welcome") >>, << LitI("hello") >>, << LitI("hi") >>,
      << LitI("hey") >>, << LitI("any questions") >>,
      << LitI("does that make sense") >>, << LitI("is that clear") >>,
      << LitI("are we good") >>, << LitI("moving on") >>,
      << LitI("let's continue") >>, << LitI("next slide") >>,
      << Rep(Range(Digits), 1, Unbounded) >> >>), Rep(SpaceCh \cup {".", ",",
      "!", "?"}, 0, Unbounded), Eos >>

\* /\b(need|must|require|ensure|make sure|have to|got to|comp.../
RxES724 ==
    << WordB, Alt(<< << Lit("need") >>, << Lit("must") >>,
      << Lit("require") >>, << Lit("ensure") >>, << Lit("make sure") >>,
      << Lit("have to") >>, << Lit("got to") >>, << Lit("complete") >>,
      << Lit("finish") >>, << Lit("submit") >>, << Lit("review") >>,
      << Lit("send") >>, << Lit("prepare") >>, << Lit("update") >>,
      << Lit("check") >>, << Lit("arrange") >>, << Lit("deliver") >>,
      << Lit("provide") >>, << Lit("create") >>, << Lit("implement") >>,
      << Lit("follow up") >>, << Lit("monitor") >>, << Lit("report") >>,
      << Lit("address") >>, << Lit("resolve") >>, << Lit("fix") >>,
      << Lit("improve") >>, << Lit("schedule") >>, << Lit("plan") >>,
      << Lit("contact") >>, << Lit("inform") >>, << Lit("notify") >>,
      << Lit("share") >>, << Lit("confirm") >>, << Lit("verify") >>,
      << Lit("approve") >>, << Lit("sign off") >>, << Lit("assign") >>,
      << Lit("set up") >>, << Lit("reach out") >> >>), WordB >>

\* /\b(you|we|I|team|staff|manager|employee|everyone|all|guys.../
RxES729 ==
    << WordB, Alt(<< << Lit("you") >>, << Lit("we") >>, << Lit("I") >>,
      << Lit("team") >>, << Lit("staff") >>, << Lit("manager") >>,
      << Lit("employee") >>, << Lit("everyone") >>, << Lit("all") >>,
      << Lit("guys") >>, << Lit("he") >>, << Lit("she") >>,
      << Lit("they") >> >>), WordB >>

\* /\s*,?\s+(?:if\s+(?:you|we)\s+(?:want|need|like|prefer|can.../i
RxES736 ==
    << Ws0, Opt(<< Lit(",") >>), Ws1, Alt(<< << LitI("if"), Ws1,
      Alt(<< << LitI("you") >>, << LitI("we") >> >>), Ws1,
      Alt(<< << LitI("want") >>, << LitI("need") >>, << LitI("like") >>,
      << LitI("prefer") >>, << LitI("can") >>,
      << LitI("could") >> >>) >> >>), AnyRest >>

\* /\s*,?\s+or\s+(?:something|whatever|anything|etc).*/i
RxES737 ==
    << Ws0, Opt(<< Lit(",") >>), Ws1, LitI("or"), Ws1,
      Alt(<< << LitI("something") >>, << LitI("whatever") >>,
      << LitI("anything") >>, << LitI("etc") >> >>), AnyRest >>

\* /\s*,?\s+(?:to\s+)?have\s+(?:a|an)\s+(?:coffee|tea|break|d.../i
RxES738 ==
    << Ws0, Opt(<< Lit(",") >>), Ws1, Opt(<< Alt(<< << LitI("to"),
      Ws1 >> >>) >>), LitI("have"), Ws1, Alt(<< << LitI("a") >>,
      << LitI("an") >> >>), Ws1, Alt(<< << LitI("coffee") >>,
      << LitI("tea") >>, << LitI("break") >>, << LitI("drink") >>,
      << LitI("chat") >>, << LitI("catch"), Opt(<< Lit("-") >>),
      LitI("up") >> >>), AnyRest >>

\* /\s*,?\s+(?:and|or)\s+(?:have|get|grab|take)\s+(?:a|an)\s+.../i
RxES739 ==
    << Ws0, Opt(<< Lit(",") >>), Ws1, Alt(<< << LitI("and") >>,
      << LitI("or") >> >>), Ws1, Alt(<< << LitI("have") >>,
      << LitI("get") >>, << LitI("grab") >>, << LitI("take") >> >>), Ws1,
      Alt(<< << LitI("a") >>, << LitI("an") >> >>), Ws1, NRep({"\n"}, 1, 20),
      Eos >>

\* /\s*,?\s+(?:just\s+)?to\s+(?:be|get)\s+(?:ready|prepared|s.../i
RxES740 ==
    << Ws0, Opt(<< Lit(",") >>), Ws1, Opt(<< Alt(<< << LitI("just"),
      Ws1 >> >>) >>), LitI("to"), Ws1, Alt(<< << LitI("be") >>,
      << LitI("get") >> >>), Ws1, Alt(<< << LitI("ready") >>,
      << LitI("prepared") >>, << LitI("set") >> >>), AnyRest >>

\* /\bI\s+(?:need|want|would like)\s+(?:you\s+(?:guys\s+)?|ev.../gi
RxES745 ==
    << WordB, LitI("i"), Ws1, Alt(<< << LitI("need") >>, << LitI("want") >>,
      << LitI("would like") >> >>), Ws1, Opt(<< Alt(<< << LitI("you"), Ws1,
      Opt(<< Alt(<< << LitI("guys"), Ws1 >> >>) >>) >>, << LitI("everyone"),
      Ws1 >> >>) >>), LitI("to"), WordB >>

\* /\byou\s+(?:guys|all|everyone)\s+(?:need|must|have)\s+to\b/gi
RxES746 ==
    << WordB, LitI("you"), Ws1, Alt(<< << LitI("guys") >>, << LitI("all") >>,
      << LitI("everyone") >> >>), Ws1, Alt(<< << LitI("need") >>,
      << LitI("must") >>, << LitI("have") >> >>), Ws1, LitI("to"), WordB >>

\* /\byou\s+(?:need|must|have)\s+to\b/gi
RxES747 ==
    << WordB, LitI("you"), Ws1, Alt(<< << LitI("need") >>,
      << LitI("must") >>, << LitI("have") >> >>), Ws1, LitI("to"), WordB >>

\* /\bwe\s+(?:need|must|have)\s+to\b/gi
RxES748 ==
    << WordB, LitI("we"), Ws1, Alt(<< << LitI("need") >>, << LitI("must") >>,
      << LitI("have") >> >>), Ws1, LitI("to"), WordB >>

\* /\bmake\s+sure\s+(?:that\s+)?(?:you\s+(?:guys\s+)?)?/gi
RxES749 ==
    << WordB, LitI("make"), Ws1, LitI("sure"), Ws1,
      Opt(<< Alt(<< << LitI("that"), Ws1 >> >>) >>),
      Opt(<< Alt(<< << LitI("you"), Ws1, Opt(<< Alt(<< << LitI("guys"),
      Ws1 >> >>) >>) >> >>) >>) >>

\* /\bensure\s+that\s+/gi
RxES750 ==
    << WordB, LitI("ensure"), Ws1, LitI("that"), Ws1 >>

\* /\bplease\s+/gi
RxES751 ==
    << WordB, LitI("please"), Ws1 >>

\* /\bjust\s+/gi
RxES752 ==
    << WordB, LitI("just"), Ws1 >>

\* /\b(?:on time|not be late|cannot be late|can't be late|arr.../i
RxES755 ==
    << WordB, Alt(<< << LitI("on time") >>, << LitI("not be late") >>,
      << LitI("cannot be late") >>, << LitI("can't be late") >>,
      << LitI("arrive") >>, << LitI("punctual") >>,
      << LitI("punctuality") >>, << LitI("early") >>, << LitI("late for"),
      Ws1, Opt(<< Alt(<< << LitI("your"), Ws1 >> >>) >>),
      LitI("shift") >> >>), WordB >>

\* /(\d+)\s+minutes?\s+(?:early|before|prior)/i
RxES757 ==
    << Alt(<< << Rep(Range(Digits), 1, Unbounded) >> >>), Ws1,
      LitI("minute"), Opt(<< LitI("s") >>), Ws1, Alt(<< << LitI("early") >>,
      << LitI("before") >>, << LitI("prior") >> >>) >>

\* /\b(?:maybe|perhaps|possibly)\s+/gi
RxES764 ==
    << WordB, Alt(<< << LitI("maybe") >>, << LitI("perhaps") >>,
      << LitI("possibly") >> >>), Ws1 >>

\* /\s{2,}/g
RxES765 ==
    << Rep(SpaceCh, 2, Unbounded) >>

\* /^[,.\s]+|[,.\s]+$/g
RxES766 ==
    << Alt(<< << Bos, Rep(SpaceCh \cup {",", "."}, 1, Unbounded) >>,
      << Rep(SpaceCh \cup {",", "."}, 1, Unbounded), Eos >> >>) >>

\* /[.!?;,]+$/
RxES773 ==
    << Rep({".", "!", "?", ";", ","}, 1, Unbounded), Eos >>

\* /\b(?:I will|I'll|I shall|I am going to|I'm going to)\b/i
RxES777 ==
    << WordB, Alt(<< << LitI("i will") >>, << LitI("i'll") >>,
      << LitI("i shall") >>, << LitI("i am going to") >>,
      << LitI("i'm going to") >> >>), WordB >>

\* /\b(?:we will|we'll|we are going to|we're going to)\b/i
RxES778 ==
    << WordB, Alt(<< << LitI("we will") >>, << LitI("we'll") >>,
      << LitI("we are going to") >>, << LitI("we're going to") >> >>),
      WordB >>

\* /\b(?:HR|human resources)\b/i
RxES779 ==
    << WordB, Alt(<< << LitI("hr") >>, << LitI("human resources") >> >>),
      WordB >>

\* /\b(?:by|before|due(?:\s+by)?|no later than)\s+(today|tomo.../i
RxES783 ==
    << WordB, Alt(<< << LitI("by") >>, << LitI("before") >>, << LitI("due"),
      Opt(<< Alt(<< << Ws1, LitI("by") >> >>) >>) >>,
      << LitI("no later than") >> >>), Ws1, Alt(<< << LitI("today") >>,
      << LitI("tomorrow") >>, << Opt(<< Alt(<< << LitI("next"),
      Ws1 >> >>) >>), Alt(<< << LitI("monday") >>, << LitI("tuesday") >>,
      << LitI("wednesday") >>, << LitI("thursday") >>,
      << LitI("friday") >> >>) >>, << Alt(<< << LitI("end of") >>,
      << LitI("by"), Ws1, LitI("end of") >> >>), Ws1,
      Opt(<< Alt(<< << LitI("the"), Ws1 >> >>) >>), Alt(<< << LitI("day") >>,
      << LitI("week") >>, << LitI("month") >> >>) >>, << LitI("eob") >>,
      << LitI("eod") >>, << LitI("cob") >> >>), WordB >>

\* /\b(?:decided|agreed|resolved|concluded|approved|confirmed.../i
RxES795 ==
    << WordB, Alt(<< << LitI("decided") >>, << LitI("agreed") >>,
      << LitI("resolved") >>, << LitI("concluded") >>,
      << LitI("approved") >>, << LitI("confirmed") >>,
      << LitI("determined") >>, << LitI("established") >>,
      << LitI("signed off") >> >>), WordB >>

\* /^(?:it\s+was|we|I|the\s+(?:team|group|committee))\s+(?:wa.../i
RxES798 ==
    << Bos, Alt(<< << LitI("it"), Ws1, LitI("was") >>, << LitI("we") >>,
      << LitI("i") >>, << LitI("the"), Ws1, Alt(<< << LitI("team") >>,
      << LitI("group") >>, << LitI("committee") >> >>) >> >>), Ws1,
      Opt(<< Alt(<< << LitI("was"), Ws1 >> >>) >>),
      Alt(<< << LitI("decided") >>, << LitI("agreed") >>,
      << LitI("resolved") >>, << LitI("concluded") >>,
      << LitI("approved") >>, << LitI("confirmed") >>,
      << LitI("determined") >>, << LitI("established") >>,
      << LitI("signed off") >> >>), Opt(<< Alt(<< << Ws1,
      LitI("that") >> >>) >>), Ws0 >>

\* /^(?:decision|agreement|resolution)\s*(?:is|was)\s*/i
RxES799 ==
    << Bos, Alt(<< << LitI("decision") >>, << LitI("agreement") >>,
      << LitI("resolution") >> >>), Ws0, Alt(<< << LitI("is") >>,
      << LitI("was") >> >>), Ws0 >>

\* /[.!?;,]+$/
RxES804 ==
    << Rep({".", "!", "?", ";", ","}, 1, Unbounded), Eos >>

\* /^(?:in one of|one of|some of|the\s+fact\s+that|a\s+key\s+.../i
RxES813 ==
    << Bos, Alt(<< << LitI("in one of") >>, << LitI("one of") >>,
      << LitI("some of") >>, << LitI("the"), Ws1, LitI("fact"), Ws1,
      LitI("that") >>, << LitI("a"), Ws1, LitI("key"), Ws1, LitI("point"),
      Ws1, LitI("is") >> >>), Ws1 >>

\* /\b(?:we|I)\s+(?:need to touch on|touched on|discussed|tal.../gi
RxES817 ==
    << WordB, Alt(<< << LitI("we") >>, << LitI("i") >> >>), Ws1,
      Alt(<< << LitI("need to touch on") >>, << LitI("touched on") >>,
      << LitI("discussed") >>, << LitI("talked about") >>,
      << LitI("went over") >>, << LitI("looked at") >>,
      << LitI("reviewed") >>, << LitI("addressed") >> >>), WordB >>

\* /\b(?:we|I)\s+(?:noted|mentioned|raised|brought up|highlig.../gi
RxES818 ==
    << WordB, Alt(<< << LitI("we") >>, << LitI("i") >> >>), Ws1,
      Alt(<< << LitI("noted") >>, << LitI("mentioned") >>,
      << LitI("raised") >>, << LitI("brought up") >>,
      << LitI("highlighted") >>, << LitI("flagged") >> >>), WordB >>

\* /\b(?:we|I)\s+(?:explained|clarified|walked through|went t.../gi
RxES819 ==
    << WordB, Alt(<< << LitI("we") >>, << LitI("i") >> >>), Ws1,
      Alt(<< << LitI("explained") >>, << LitI("clarified") >>,
      << LitI("walked through") >>, << LitI("went through") >> >>), WordB >>

\* /\b(?:we|I)\s+(?:agreed|concurred|decided)\b/gi
RxES820 ==
    << WordB, Alt(<< << LitI("we") >>, << LitI("i") >> >>), Ws1,
      Alt(<< << LitI("agreed") >>, << LitI("concurred") >>,
      << LitI("decided") >> >>), WordB >>

\* /\b(?:we|I)\s+(?:emphasized|stressed|underlined|underscore.../gi
RxES821 ==
    << WordB, Alt(<< << LitI("we") >>, << LitI("i") >> >>), Ws1,
      Alt(<< << LitI("emphasized") >>, << LitI("stressed") >>,
      << LitI("underlined") >>, << LitI("underscored") >> >>), WordB >>

\* /\b(?:we|I)\s+(?:identified|recognised|spotted)\b/gi
RxES822 ==
    << WordB, Alt(<< << LitI("we") >>, << LitI("i") >> >>), Ws1,
      Alt(<< << LitI("identified") >>, << LitI("recognised") >>,
      << LitI("spotted") >> >>), WordB >>

\* /\bimproving\s+sales\s+(?:in|for|at)\b/gi
RxES823 ==
    << WordB, LitI("improving"), Ws1, LitI("sales"), Ws1,
      Alt(<< << LitI("in") >>, << LitI("for") >>, << LitI("at") >> >>),
      WordB >>

\* /\bthis\s+is\s+(?:the\s+)?(?:most important|critical|key|m.../gi
RxES824 ==
    << WordB, LitI("this"), Ws1, LitI("is"), Ws1,
      Opt(<< Alt(<< << LitI("the"), Ws1 >> >>) >>),
      Alt(<< << LitI("most important") >>, << LitI("critical") >>,
      << LitI("key") >>, << LitI("main") >>, << LitI("primary") >>,
      << LitI("top") >> >>), Ws1, Alt(<< << LitI("thing") >>,
      << LitI("priority") >>, << LitI("issue") >>, << LitI("concern") >> >>),
      WordB >>

\* /\s+(?:this\s+is\s+(?:the\s+)?(?:most important|critical|k.../i
RxES828 ==
    << Ws1, Alt(<< << LitI("this"), Ws1, LitI("is"), Ws1,
      Opt(<< Alt(<< << LitI("the"), Ws1 >> >>) >>),
      Alt(<< << LitI("most important") >>, << LitI("critical") >>,
      << LitI("key") >> >>) >> >>), AnyRest >>

\* /\s+if\s+(?:you|we)\s+(?:want|need|like).*/i
RxES829 ==
    << Ws1, LitI("if"), Ws1, Alt(<< << LitI("you") >>, << LitI("we") >> >>),
      Ws1, Alt(<< << LitI("want") >>, << LitI("need") >>,
      << LitI("like") >> >>), AnyRest >>

\* /\s{2,}/g
RxES830 ==
    << Rep(SpaceCh, 2, Unbounded) >>

\* /\b(that|which|who|when|where|what|how|if|because|for|to|i.../i
RxES837 ==
    << WordB, Alt(<< << LitI("that") >>, << LitI("which") >>,
      << LitI("who") >>, << LitI("when") >>, << LitI("where") >>,
      << LitI("what") >>, << LitI("how") >>, << LitI("if") >>,
      << LitI("because") >>, << LitI("for") >>, << LitI("to") >>,
      << LitI("in") >>, << LitI("on") >>, << LitI("at") >>,
      << LitI("with") >>, << LitI("by") >> >>), Ws0, Eos >>

\* /[.!?]$/
RxES840 ==
    << Rep({".", "!", "?"}, 1, 1), Eos >>

\* /\b(?:sales|revenue|profit|target|client|customer|business.../
RxES852 ==
    << WordB, Alt(<< << Lit("sales") >>, << Lit("revenue") >>,
      << Lit("profit") >>, << Lit("target") >>, << Lit("client") >>,
      << Lit("customer") >>, << Lit("business development") >>,
      << Lit("pipeline") >>, << Lit("upsell") >>, << Lit("cross"), NRep({"\n"},
      0, 1), Lit("sell") >>, << Lit("quota") >> >>), WordB >>

\* /\b(?:shift|schedule|attendance|punctual|late|timekeeping|.../
RxES853 ==
    << WordB, Alt(<< << Lit("shift") >>, << Lit("schedule") >>,
      << Lit("attendance") >>, << Lit("punctual") >>, << Lit("late") >>,
      << Lit("timekeeping") >>, << Lit("roster") >>, << Lit("on time") >>,
      << Lit("arrive") >>, << Lit("early") >>, << Lit("absence") >>,
      << Lit("time off") >>, << Lit("rota") >> >>), WordB >>

\* /\b(?:performance|review|development|career|progress|appra.../
RxES854 ==
    << WordB, Alt(<< << Lit("performance") >>, << Lit("review") >>,
      << Lit("development") >>, << Lit("career") >>, << Lit("progress") >>,
      << Lit("appraisal") >>, << Lit("assessment") >>, << Lit("kpi") >>,
      << Lit("objective") >>, << Lit("goal") >> >>), WordB >>

\* /\b(?:budget|cost|financial|expense|spend|cash flow|invoic.../
RxES855 ==
    << WordB, Alt(<< << Lit("budget") >>, << Lit("cost") >>,
      << Lit("financial") >>, << Lit("expense") >>, << Lit("spend") >>,
      << Lit("cash flow") >>, << Lit("invoice") >>, << Lit("money") >>,
      << Lit("profit") >>, << Lit("margin") >>, << Lit("forecast") >>,
      << Lit("p&l") >> >>), WordB >>

\* /\b(?:project|deadline|delivery|milestone|timeline|sprint|.../
RxES856 ==
    << WordB, Alt(<< << Lit("project") >>, << Lit("deadline") >>,
      << Lit("delivery") >>, << Lit("milestone") >>, << Lit("timeline") >>,
      << Lit("sprint") >>, << Lit("launch") >>, << Lit("rollout") >> >>),
      WordB >>

\* /\b(?:complaint|feedback|service|customer experience|guest.../
RxES857 ==
    << WordB, Alt(<< << Lit("complaint") >>, << Lit("feedback") >>,
      << Lit("service") >>, << Lit("customer experience") >>,
      << Lit("guest") >>, << Lit("visitor") >>, << Lit("satisfaction") >>,
      << Lit("nps") >> >>), WordB >>

\* /\b(?:safety|compliance|risk|security|health|hazard|policy.../
RxES858 ==
    << WordB, Alt(<< << Lit("safety") >>, << Lit("compliance") >>,
      << Lit("risk") >>, << Lit("security") >>, << Lit("health") >>,
      << Lit("hazard") >>, << Lit("policy") >>, << Lit("gdpr") >>,
      << Lit("regulation") >>, << Lit("audit") >> >>), WordB >>

\* /\b(?:food|beverage|menu|kitchen|bar|drink|hospitality|ven.../
RxES859 ==
    << WordB, Alt(<< << Lit("food") >>, << Lit("beverage") >>,
      << Lit("menu") >>, << Lit("kitchen") >>, << Lit("bar") >>,
      << Lit("drink") >>, << Lit("hospitality") >>, << Lit("venue") >>,
      << Lit("event") >> >>), WordB >>

\* /\b(?:staff|hiring|recruitment|vacancy|turnover|onboard|in.../
RxES860 ==
    << WordB, Alt(<< << Lit("staff") >>, << Lit("hiring") >>,
      << Lit("recruitment") >>, << Lit("vacancy") >>, << Lit("turnover") >>,
      << Lit("onboard") >>, << Lit("induction") >>,
      << Lit("headcount") >> >>), WordB >>

\* /\b(?:operation|process|procedure|system|workflow|tool|pla.../
RxES861 ==
    << WordB, Alt(<< << Lit("operation") >>, << Lit("process") >>,
      << Lit("procedure") >>, << Lit("system") >>, << Lit("workflow") >>,
      << Lit("tool") >>, << Lit("platform") >>, << Lit("software") >>,
      << Lit("tech") >> >>), WordB >>

\* /\b(?:marketing|brand|campaign|social media|advertising|pr.../
RxES862 ==
    << WordB, Alt(<< << Lit("marketing") >>, << Lit("brand") >>,
      << Lit("campaign") >>, << Lit("social media") >>,
      << Lit("advertising") >>, << Lit("promotion") >>, << Lit("pr") >> >>),
      WordB >>

-----------------------------------------------------------------------------
(* The minutes compiler.  The repository holds it twice: the copy in       *)
(* minutesGenerator.ts is the one MinutesScreen imports, the copy in       *)
(* exportService.ts is a later revision of the same functions.  A function *)
(* the two copies write differently is modelled twice, the exportService   *)
(* one under its name followed by X; `compiler' says which copy runs.      *)

Compilers == {"minutesGenerator", "exportService"}

\* a deadline that is not set (ActionItem.deadline is optional)
Undefined == << "undefined" >>

ActionItem(id, action, owner, deadline) ==
    [id |-> id, action |-> action, owner |-> owner, deadline |-> deadline]

\* String.prototype.substring(0, n)
Substring0(s, n) == IF Len(s) <= n THEN s ELSE SubSeq(s, 1, n)

\* minutesGenerator.ts, calculateSimilarity: normalize
normalize(s) == Trim(RxReplaceAll(Lower(s), << Ws1 >>, << " " >>))

\* exportService.ts, calculateSimilarity: normalize, which drops punctuation too
normalizeX(s) ==
    Trim(RxReplaceAll(RxReplaceAll(Lower(s), << NRep(WordCh \cup SpaceCh, 1, 1) >>, <<>>),
                      << Ws1 >>, << " " >>))

\* new Set(s.split(/\s+/))
WordSet(s) == Range(RxSplit(s, << Ws1 >>))

\* Jaccard index of two word sets, as the fraction << numerator, denominator >>
Jaccard(words1, words2) ==
    IF words1 \cup words2 = {} THEN << 0, 1 >>
    ELSE << Cardinality(words1 \cap words2), Cardinality(words1 \cup words2) >>

calculateSimilarity(str1, str2) ==
    Jaccard(WordSet(normalize(str1)), WordSet(normalize(str2)))

\* exportService.ts, calculateSimilarity from the normalised strings on
SimilarityX(s1, s2) ==
    IF s1 = s2 THEN << 1, 1 >> ELSE Jaccard(WordSet(s1), WordSet(s2))

calculateSimilarityX(str1, str2) == SimilarityX(normalizeX(str1), normalizeX(str2))

\* similarity > pct / 100
Exceeds(sim, pct) == sim[1] * 100 > pct * sim[2]

\* Array.prototype.findIndex, 0 when nothing is found
FindIndex(list, Test(_)) ==
    IF \A i \in 1..Len(list) : ~Test(list[i]) THEN 0
    ELSE SetMin({i \in 1..Len(list) : Test(list[i])})

\* minutesGenerator.ts: one turn of the loop of mergeAndConsolidateActions
mergeAt(merged, parsedAction, similarIdx) ==
    IF similarIdx = 0 THEN Append(merged, parsedAction)
    ELSE IF Len(parsedAction.action) > Len(merged[similarIdx].action)
    THEN [merged EXCEPT ![similarIdx] =
             [parsedAction EXCEPT !.id = merged[similarIdx].id]]
    ELSE merged

mergeOne(merged, parsedAction) ==
    LET similar(existing) ==
            \/ Exceeds(calculateSimilarity(existing.action, parsedAction.action), 75)
            \/ /\ Includes(existing.action, Substring0(parsedAction.action, 15))
               /\ existing.owner = parsedAction.owner
    IN  mergeAt(merged, parsedAction, FindIndex(merged, similar))

RECURSIVE mergeAndConsolidateActions(_, _)
mergeAndConsolidateActions(existing, parsedActions) ==
    IF parsedActions = <<>> THEN existing
    ELSE mergeAndConsolidateActions(mergeOne(existing, Head(parsedActions)),
                                    Tail(parsedActions))

\* exportService.ts: one turn of the loop of mergeAndConsolidateActions
mergeOneX(merged, pa) ==
    LET isDup(ex) ==
            \/ Exceeds(calculateSimilarityX(ex.action, pa.action), 72)
            \/ StartsWith(Lower(ex.action), Substring0(Lower(pa.action), 25))
    IN  IF \E i \in 1..Len(merged) : isDup(merged[i]) THEN merged
        ELSE Append(merged, pa)

RECURSIVE mergeAndConsolidateActionsX(_, _)
mergeAndConsolidateActionsX(existing, parsedActions) ==
    IF parsedActions = <<>> THEN existing
    ELSE mergeAndConsolidateActionsX(mergeOneX(existing, Head(parsedActions)),
                                     Tail(parsedActions))

\* generateStructuredMinutes, the merge call of the copy that runs
Merge(cmp, existing, parsedActions) ==
    IF cmp = "minutesGenerator" THEN mergeAndConsolidateActions(existing, parsedActions)
    ELSE mergeAndConsolidateActionsX(existing, parsedActions)


-----------------------------------------------------------------------------
(* The minutes document, a sequence of lines.  TLA+ strings are ASCII: the *)
(* bullet (U+2022) of minutesGenerator.ts is written @ and the en dash     *)
(* (U+2013) is written ~.                                                  *)

MeetingTypes == {"1:1", "team", "disciplinary", "investigation"}

\* the meeting's fields that App.handleSaveMeetingSetup fills and that the
\* model keeps fixed: title, formatted date, start time; no location, no case ref
Title == Chs("Weekly sync")
FormattedDate == Chs("1 November 2026")
StartTime == Chs("10:00")
GeneratedOn == Chs("01/11/2026")

\* the decimal digits of a natural number
RECURSIVE NumStr(_)
NumStr(n) == IF n < 10 THEN << Digits[n + 1] >> ELSE NumStr(n \div 10) \o << Digits[(n % 10) + 1] >>

\* 's' unless n = 1
Plural(n) == IF n # 1 THEN Chs("s") ELSE <<>>

\* the test with the second meeting type left out
IsHR_disciplinaryOnly(type) == type = "disciplinary"

IsHR(type) == type = "disciplinary" \/ type = "investigation"

formatMeetingType(type) ==
    CASE type = "1:1" -> Chs("1:1 Meeting")
      [] type = "team" -> Chs("Team Meeting")
      [] type = "disciplinary" -> Chs("Disciplinary Hearing")
      [] type = "investigation" -> Chs("Investigation Meeting")

formatMeetingTypeHeader(type) ==
    CASE type = "1:1" -> Chs("1:1 MEETING")
      [] type = "team" -> Chs("TEAM MEETING")
      [] type = "disciplinary" -> Chs("DISCIPLINARY HEARING")
      [] type = "investigation" -> Chs("INVESTIGATION MEETING")

getConfidentialityLevel(type) ==
    IF IsHR(type) THEN Chs("CONFIDENTIAL ~ HR Records")
    ELSE IF type = "1:1" THEN Chs("CONFIDENTIAL ~ Management")
    ELSE Chs("Internal")

\* rolePriority[a.role] || 99
rolePriority(role) ==
    CASE role = "Chair" -> 1
      [] role = "Investigator" -> 1
      [] role = "Manager" -> 2
      [] role = "HR" -> 3
      [] role = "Employee" -> 4
      [] role = "Note-taker" -> 5
      [] role = "Witness" -> 6
      [] role = "Companion" -> 7
      [] OTHER -> 99

\* [...attendees].sort by role priority (the sort is stable)
SortedAttendees(attendees) ==
    LET levels == << 1, 2, 3, 4, 5, 6, 7, 99 >>
        at(p) == SelectSeq(attendees, LAMBDA a : rolePriority(a.role) = p)
    IN  Flat([i \in 1..Len(levels) |-> at(levels[i])])

NoAttendees == Chs("_No attendees recorded._")

formatAttendees(attendees) ==
    IF attendees = <<>> THEN << NoAttendees >>
    ELSE LET sorted == SortedAttendees(attendees)
         IN  [i \in 1..Len(sorted) |->
                Chs("@ **") \o Chs(sorted[i].name) \o Chs("** ~ ") \o Chs(sorted[i].role)]

formatAttendeesX(attendees) ==
    IF attendees = <<>> THEN << NoAttendees >>
    ELSE LET sorted == SortedAttendees(attendees)
         IN  [i \in 1..Len(sorted) |->
                Chs("- **") \o Chs(sorted[i].name) \o Chs("** ~ ") \o Chs(sorted[i].role)]

\* the topics of detectTopic in the order of localeCompare
TopicOrder ==
    << "Attendance & Scheduling", "Customer Service", "Finance", "Food & Beverage",
       "General Matters", "Operations", "Performance & Development", "Projects",
       "Safety & Compliance", "Sales & Business Development", "Staffing" >>

TopicOrderX ==
    << "Attendance & Scheduling", "Customer Service", "Finance",
       "Food & Beverage / Events", "General Matters", "Marketing & Communications",
       "Operations & Technology", "Performance & Development", "Projects & Delivery",
       "Safety & Compliance", "Sales & Business Development", "Staffing & HR" >>

\* Array.from(keyPoints.entries()).sort(localeCompare): keyPoints is a sequence
\* of [topic, points] in the order of insertion
SortedTopics(keyPoints, order) ==
    Flat([i \in 1..Len(order) |->
            SelectSeq(keyPoints, LAMBDA e : e.topic = order[i])])

NoPoints == Chs("_No discussion points recorded._")

\* the lines of one topic, after a blank line unless it is the first
TopicLines(entry, first, bullet) ==
    (IF first THEN <<>> ELSE << <<>> >>)
    \o << Chs("**") \o Chs(entry.topic) \o Chs("**") >>
    \o [j \in 1..Len(entry.points) |-> bullet \o entry.points[j]]

formatKeyPointsWith(keyPoints, order, bullet) ==
    IF keyPoints = <<>> THEN << NoPoints >>
    ELSE LET sorted == SelectSeq(SortedTopics(keyPoints, order),
                                 LAMBDA e : Len(e.points) > 0)
         IN  IF sorted = <<>> THEN << <<>> >>
             ELSE Flat([i \in 1..Len(sorted) |-> TopicLines(sorted[i], i = 1, bullet)])

formatKeyPoints(keyPoints) == formatKeyPointsWith(keyPoints, TopicOrder, Chs("@ "))

formatKeyPointsX(keyPoints) == formatKeyPointsWith(keyPoints, TopicOrderX, Chs("- "))

NoDecisions == Chs("_No formal decisions recorded._")

\* the decisions without the placeholder of the empty list
formatDecisions_noPlaceholder(decisions) ==
    [i \in 1..Len(decisions) |-> Chs("@ ") \o decisions[i]]

formatDecisions(decisions) ==
    IF decisions = <<>> THEN << NoDecisions >>
    ELSE [i \in 1..Len(decisions) |-> Chs("@ ") \o decisions[i]]

formatDecisionsX(decisions) ==
    IF decisions = <<>> THEN << NoDecisions >>
    ELSE [i \in 1..Len(decisions) |-> Chs("- ") \o decisions[i]]

TableHeader == Chs("| Action | Owner | Deadline |")
TableRule == Chs("|:-------|:-----:|:---------|")
NoActionsRow == Chs("| _No actions recorded_ | ~ | ~ |")
NoActionsRowX == Chs("| _No actions recorded_ | - | - |")

\* a.deadline || 'TBC'
DeadlineOrTBC(a) == IF a.deadline = Undefined \/ a.deadline = <<>> THEN Chs("TBC") ELSE a.deadline

\* one row: the pipes of the action text replaced, text over limit characters
\* cut to limit - 3 and an ellipsis
TableRow(a, limit) ==
    LET piped == [i \in 1..Len(a.action) |-> IF a.action[i] = "|" THEN "/" ELSE a.action[i]]
        action == IF Len(piped) > limit THEN Substring0(piped, limit - 3) \o Chs("...")
                  ELSE piped
    IN  Chs("| ") \o action \o Chs(" | ") \o a.owner \o Chs(" | ")
        \o DeadlineOrTBC(a) \o Chs(" |")

formatActionsTable(actions) ==
    IF actions = <<>> THEN << TableHeader, TableRule, NoActionsRow >>
    ELSE << TableHeader, TableRule >> \o [i \in 1..Len(actions) |-> TableRow(actions[i], 60)]

formatActionsTableX(actions) ==
    IF actions = <<>> THEN << TableHeader, TableRule, NoActionsRowX >>
    ELSE << TableHeader, TableRule >> \o [i \in 1..Len(actions) |-> TableRow(actions[i], 70)]

CompleteLine(n, bullet, tail) ==
    IF n > 0
    THEN << bullet \o Chs("Complete ") \o NumStr(n) \o Chs(" action item") \o Plural(n) \o tail >>
    ELSE <<>>

formatNextSteps(type, actions) ==
    CompleteLine(Len(actions), Chs("@ "), Chs(" detailed above"))
    \o (CASE type = "disciplinary" ->
               << Chs("@ HR to process formal documentation within 48 hours"),
                  Chs("@ Written outcome to be issued within 5 working days"),
                  Chs("@ Employee rights to appeal to be confirmed in writing") >>
          [] type = "investigation" ->
               << Chs("@ Investigation findings to be compiled"),
                  Chs("@ Decision on next steps within 10 working days") >>
          [] type = "1:1" ->
               << Chs("@ Next 1:1 to be scheduled per regular cadence") >>
          [] type = "team" ->
               << Chs("@ Progress on actions to be reviewed at next team meeting") >>)
    \o << Chs("@ Minutes circulated to attendees within 24 hours") >>

formatNextStepsX(type, actions) ==
    CompleteLine(Len(actions), Chs("- "), Chs(" listed above"))
    \o (CASE type = "disciplinary" ->
               << Chs("- HR to process formal documentation within 48 hours"),
                  Chs("- Written outcome to be issued within 5 working days"),
                  Chs("- Employee rights to appeal to be confirmed in writing") >>
          [] type = "investigation" ->
               << Chs("- Investigation findings to be compiled"),
                  Chs("- Decision on next steps within 10 working days") >>
          [] type = "1:1" ->
               << Chs("- Next 1:1 to be scheduled per regular cadence"),
                  Chs("- Development actions to be reviewed at next session") >>
          [] type = "team" ->
               << Chs("- Action progress to be reviewed at next team meeting") >>)
    \o << Chs("- Minutes to be circulated to all attendees within 24 hours") >>

generateExecutiveSummary(keyPoints, actions, type) ==
    LET topicCount == Len(keyPoints)
        actionCount == Len(actions)
    IN  Chs("Meeting addressed ") \o NumStr(topicCount) \o Chs(" topic area") \o Plural(topicCount)
        \o (IF actionCount > 0
            THEN Chs(" with ") \o NumStr(actionCount) \o Chs(" action item")
                 \o Plural(actionCount) \o Chs(" assigned")
            ELSE <<>>)
        \o Chs(". **") \o Title \o Chs("**.")
        \o (IF type = "disciplinary" THEN Chs(" *Formal disciplinary hearing conducted.*") ELSE <<>>)
        \o (IF type = "investigation" THEN Chs(" *Investigation meeting conducted.*") ELSE <<>>)

\* Array.from(keyPoints.keys()).join(', ')
RECURSIVE TopicNames(_)
TopicNames(keyPoints) ==
    IF keyPoints = <<>> THEN <<>>
    ELSE IF Len(keyPoints) = 1 THEN Chs(keyPoints[1].topic)
    ELSE Chs(keyPoints[1].topic) \o Chs(", ") \o TopicNames(Tail(keyPoints))

generateExecutiveSummaryX(keyPoints, actions, type) ==
    LET topicCount == Len(keyPoints)
        actionCount == Len(actions)
    IN  Chs("**") \o Title \o Chs("** ~ ")
        \o (IF topicCount > 0
            THEN NumStr(topicCount) \o Chs(" topic area") \o Plural(topicCount) \o Chs(" covered")
                 \o Chs(" (") \o TopicNames(keyPoints) \o Chs(")")
            ELSE Chs("Meeting held"))
        \o (IF actionCount > 0
            THEN Chs(". ") \o NumStr(actionCount) \o Chs(" action item")
                 \o Plural(actionCount) \o Chs(" assigned.")
            ELSE Chs(". No actions assigned."))
        \o (IF type = "disciplinary"
            THEN Chs(" *Formal disciplinary hearing ~ HR records apply.*") ELSE <<>>)
        \o (IF type = "investigation"
            THEN Chs(" *Formal investigation meeting ~ HR records apply.*") ELSE <<>>)

HRHeading == Chs("## HR Documentation")

\* the lines of the returned string, which opens with two line breaks: the
\* first element continues the line the string is placed on
generateHRAddendum(type, consentConfirmed) ==
    IF type = "disciplinary"
    THEN << <<>>, <<>>, HRHeading, <<>>,
            Chs("**Allegations:** Presented to employee and response recorded."),
            Chs("**Evidence:** Reviewed and acknowledged by employee."),
            Chs("**Mitigation:** ")
              \o (IF consentConfirmed THEN Chs("Employee provided response and mitigation.")
                  ELSE Chs("Pending employee response.")),
            Chs("**Outcome:** To be confirmed in writing within 5 working days."),
            Chs("**Appeal Rights:** 5 working days from written confirmation date.") >>
    ELSE IF type = "investigation"
    THEN << <<>>, <<>>, HRHeading, <<>>,
            Chs("**Investigation Scope:** Parameters explained to employee."),
            Chs("**Evidence:** Supporting documents reviewed."),
            Chs("**Employee Response:** ")
              \o (IF consentConfirmed THEN Chs("Cooperation provided.") ELSE Chs("Pending.")),
            Chs("**Next Steps:** Findings to be compiled and decision communicated.") >>
    ELSE << <<>> >>

generateHRAddendumX(type, consentConfirmed) ==
    IF type = "disciplinary"
    THEN << <<>>, <<>>, HRHeading, <<>>,
            Chs("**Allegations:** Presented to employee and response recorded."),
            Chs("**Evidence:** Reviewed and acknowledged by employee."),
            Chs("**Mitigation:** ")
              \o (IF consentConfirmed THEN Chs("Employee provided response and mitigation.")
                  ELSE Chs("Pending employee response.")),
            Chs("**Outcome:** To be confirmed in writing within 5 working days."),
            Chs("**Appeal Rights:** Employee has 5 working days from written confirmation date to lodge an appeal.") >>
    ELSE IF type = "investigation"
    THEN << <<>>, <<>>, HRHeading, <<>>,
            Chs("**Investigation Scope:** Parameters explained to employee."),
            Chs("**Evidence:** Supporting documents reviewed during meeting."),
            Chs("**Employee Response:** ")
              \o (IF consentConfirmed THEN Chs("Cooperation provided.") ELSE Chs("Pending.")),
            Chs("**Next Steps:** Findings to be compiled; outcome communicated within 10 working days.") >>
    ELSE << <<>> >>

\* the template literal of generateStructuredMinutes, line by line, around
\* the sections the caller has formatted
Template(type, consentConfirmed, nAttendees, nActions, summary, attendeeLines,
         pointLines, decisionLines, tableLines, stepLines, addendum) ==
    << Chs("# ") \o formatMeetingTypeHeader(type) \o Chs(" MINUTES"),
       <<>>,
       summary,
       <<>>,
       Chs("## Meeting Information"),
       <<>>,
       Chs("| Field | Details |"),
       Chs("|:------|:--------|"),
       Chs("| **Date** | ") \o FormattedDate \o Chs(" |"),
       Chs("| **Time** | ") \o StartTime \o Chs(" |"),
       Chs("| **Type** | ") \o formatMeetingType(type) \o Chs(" |"),
       (IF IsHR(type) THEN Chs("| **Location**") ELSE Chs("| **Venue**"))
         \o Chs(" | Not stated |"),
       Chs("| **Subject** | ") \o Title \o Chs(" |"),
       <<>>,
       <<>>,
       Chs("## Attendees (") \o NumStr(nAttendees) \o Chs(")"),
       <<>> >>
    \o attendeeLines
    \o << <<>>, Chs("## Discussion Summary"), <<>> >>
    \o pointLines
    \o << <<>>, Chs("## Decisions"), <<>> >>
    \o decisionLines
    \o << <<>>, Chs("## Action Items (") \o NumStr(nActions) \o Chs(")"), <<>> >>
    \o tableLines
    \o << <<>>, Chs("## Follow-up"), <<>> >>
    \o stepLines
    \o (IF IsHR(type) THEN addendum ELSE << <<>> >>)
    \o << <<>>,
          Chs("---"),
          Chs("*Document prepared by MinuteMate | ") \o getConfidentialityLevel(type)
            \o Chs(" | Generated: ") \o GeneratedOn \o Chs("*"),
          <<>> >>


-----------------------------------------------------------------------------
(* extractActionsFromMinutes: the action table read back from the document *)

\* String.prototype.split(c) for a one-character separator
RECURSIVE SplitOn(_, _)
SplitOn(s, c) ==
    LET at == {i \in 1..Len(s) : s[i] = c}
    IN  IF at = {} THEN << s >>
        ELSE LET i == SetMin(at)
             IN  << SubSeq(s, 1, i - 1) >> \o SplitOn(Slice(s, i), c)

\* l.split('|').map(p => p.trim()).filter(Boolean)
Cells(l) ==
    LET ps == SplitOn(l, "|")
    IN  SelectSeq([i \in 1..Len(ps) |-> Trim(ps[i])], LAMBDA p : p # <<>>)

\* /\|\s*Action\s*\|\s*Owner\s*\|\s*Deadline\s*\|/i, at the end of a line
HeaderRx ==
    << Lit("|"), Ws0, LitI("action"), Ws0, Lit("|"), Ws0, LitI("owner"), Ws0,
       Lit("|"), Ws0, LitI("deadline"), Ws0, Lit("|"), Eos >>

\* minutesGenerator.ts: /\|[-:]+\|[-:]+\|[-:]+\|/, a whole line
RuleRx ==
    << Bos, Lit("|"), Rep({"-", ":"}, 1, Unbounded), Lit("|"),
       Rep({"-", ":"}, 1, Unbounded), Lit("|"), Rep({"-", ":"}, 1, Unbounded),
       Lit("|"), Eos >>

\* exportService.ts: /\|[-:| ]+\|/, a whole line
RuleRxX == << Bos, Lit("|"), Rep({"-", ":", "|", " "}, 1, Unbounded), Lit("|"), Eos >>

\* match[1].split('\n'): the lines after the first header line that is
\* followed by a rule line, up to the line before the first line that opens
\* with ## or with ---, or to the end of the text; <<>> when the expression
\* does not match
TableBody(lines, ruleRx) ==
    LET heads == {i \in 1..(Len(lines) - 2) :
                     /\ RxTest(lines[i], HeaderRx)
                     /\ RxTest(lines[i + 1], ruleRx)}
    IN  IF heads = {} THEN <<>>
        ELSE LET a == SetMin(heads) + 2
                 stops == {k \in a..Len(lines) :
                              \/ k = Len(lines)
                              \/ StartsWith(lines[k + 1], Chs("##"))
                              \/ StartsWith(lines[k + 1], Chs("---"))}
             IN  SubSeq(lines, a, SetMin(stops))

\* the rows that become action items; ids are crypto.randomUUID(), written
\* << "row", i >>
RowsToActions(rows) ==
    LET kept == SelectSeq([i \in 1..Len(rows) |-> Cells(rows[i])],
                          LAMBDA parts : /\ Len(parts) >= 2
                                         /\ ~Includes(parts[1], Chs("No actions")))
    IN  [i \in 1..Len(kept) |->
            ActionItem(<< "row", i >>, kept[i][1], kept[i][2],
                       IF Len(kept[i]) >= 3 THEN kept[i][3] ELSE Undefined)]

\* minutesGenerator.ts: the filter of the table lines
IsRow(l) == StartsWith(l, Chs("|")) /\ ~Includes(l, Chs("Action"))

extractActionsFromMinutes(minutesText) ==
    RowsToActions(SelectSeq(TableBody(minutesText, RuleRx), IsRow))

\* exportService.ts: the filter of the table lines, !/Action\s*\|/i.test(l)
IsRowX(l) ==
    StartsWith(l, Chs("|")) /\ ~RxTest(l, << LitI("action"), Ws0, Lit("|") >>)

extractActionsFromMinutesX(minutesText) ==
    RowsToActions(SelectSeq(TableBody(minutesText, RuleRxX), IsRowX))

Extract(cmp, minutesText) ==
    IF cmp = "minutesGenerator" THEN extractActionsFromMinutes(minutesText)
    ELSE extractActionsFromMinutesX(minutesText)

-----------------------------------------------------------------------------
(* The merge and the action table on their own: every list of existing     *)
(* actions and every list of freshly parsed actions drawn from the items   *)
(* below, merged by either copy, and rendered and read back by either copy *)

MaxExisting == 2     \* existing actions of the meeting
MaxParsed == 2       \* freshly parsed actions handed to one merge

\* action items that come from outside the compiler (ids are UUIDs, written
\* << "x", n >>)
ExistingItems ==
    { ActionItem(<< "x", 1 >>, Chs("Send report"), Chs("Alice"), Chs("Friday")),
      ActionItem(<< "x", 2 >>, Chs("Send the report Friday"), Chs("Alice"), Chs("Friday")),
      ActionItem(<< "x", 3 >>, Chs("Agree next Action"), Chs("Bob"), Chs("Monday")),
      ActionItem(<< "x", 4 >>,
                 Chs("Prepare the quarterly budget review pack and circulate it to all of the board members"),
                 Chs("Manager"), Undefined) }

\* action items as parseTranscript makes them (ids written << "p", n >>)
ParsedItems ==
    { ActionItem(<< "p", 1 >>, Chs("Send the report"), Chs("Team"), Undefined),
      ActionItem(<< "p", 2 >>, Chs("Send the report by Friday"), Chs("Team"), Chs("Friday")),
      ActionItem(<< "p", 3 >>, Chs("Book the room"), Chs("Manager"), Chs("tomorrow")) }

\* the lists of up to n different items of S
ListsOf(S, n) ==
    UNION {{l \in [1..k -> S] : \A i, j \in 1..k : l[i] = l[j] => i = j} : k \in 0..n}

InitActions ==
    /\ InitHook
    /\ apiPresent
    /\ consentChecked = FALSE
    /\ showConsentError = FALSE
    /\ onScreen = FALSE
    /\ compiler \in Compilers
    /\ meeting \in {[NewMeeting("team", <<>>) EXCEPT !.actions = existing] :
                       existing \in ListsOf(ExistingItems, MaxExisting)}
    /\ parsed \in ListsOf(ParsedItems, MaxParsed)
    /\ out = NoOut

\* generateStructuredMinutes, the merge call
MergeStep ==
    /\ out' = [ran |-> TRUE, op |-> "merge",
               merged |-> Merge(compiler, meeting.actions, parsed)]
    /\ UNCHANGED << hookVars, screenVars, meeting, compiler, parsed >>

\* the document of a meeting without transcript around the table of actions
DocumentAround(cmp, type, actions) ==
    IF cmp = "minutesGenerator"
    THEN Template(type, FALSE, 0, Len(actions),
                  generateExecutiveSummary(<<>>, actions, type), formatAttendees(<<>>),
                  formatKeyPoints(<<>>), formatDecisions(<<>>),
                  formatActionsTable(actions), formatNextSteps(type, actions),
                  generateHRAddendum(type, FALSE))
    ELSE Template(type, FALSE, 0, Len(actions),
                  generateExecutiveSummaryX(<<>>, actions, type), formatAttendeesX(<<>>),
                  formatKeyPointsX(<<>>), formatDecisionsX(<<>>),
                  formatActionsTableX(actions), formatNextStepsX(type, actions),
                  generateHRAddendumX(type, FALSE))

\* formatActionsTable inside the document, then extractActionsFromMinutes
TableStep ==
    /\ out' = [ran |-> TRUE, op |-> "table",
               extracted |-> Extract(compiler,
                                     DocumentAround(compiler, meeting.type, meeting.actions))]
    /\ UNCHANGED << hookVars, screenVars, meeting, compiler, parsed >>

NextActions == MergeStep \/ TableStep

SpecActions == InitActions /\ [][NextActions]_vars

-----------------------------------------------------------------------------
(* parseTranscript: what the two copies share *)

LowerSet == Range(LowerCase)
UpperSet == Range(UpperCase)
DigitSet == Range(Digits)

\* one call of String.prototype.replace in a chain of calls
All(pat, to) == [pat |-> pat, to |-> Chs(to), g |-> TRUE]      \* with the g flag
Once(pat, to) == [pat |-> pat, to |-> Chs(to), g |-> FALSE]    \* without it

ReplaceStep(s, step) ==
    IF step.g THEN RxReplaceAll(s, step.pat, step.to) ELSE RxReplace(s, step.pat, step.to)

\* s.replace(..).replace(..)..., the calls in the order of steps; no
\* expression of the source matches in the empty text
RECURSIVE ReplaceEach(_, _)
ReplaceEach(s, steps) ==
    IF s = <<>> \/ steps = <<>> THEN s
    ELSE ReplaceEach(ReplaceStep(s, Head(steps)), Tail(steps))

\* .replace(/([a-z])([A-Z])/g, '$1 $2') on the characters lo..hi of s: a
\* space after every lower-case letter that an upper-case letter follows
RECURSIVE SpacedIn(_, _, _)
SpacedIn(s, lo, hi) ==
    IF lo > hi THEN <<>>
    ELSE IF lo = hi
    THEN (IF s[lo] \in LowerSet /\ lo < Len(s) /\ s[lo + 1] \in UpperSet
          THEN << s[lo], " " >> ELSE << s[lo] >>)
    ELSE SpacedIn(s, lo, (lo + hi) \div 2) \o SpacedIn(s, (lo + hi) \div 2 + 1, hi)

splitCamelCase(s) == SpacedIn(s, 1, Len(s))

\* str.charAt(0).toUpperCase() + str.slice(1)
toSentenceCase(str) ==
    IF str = <<>> THEN str ELSE << UpperChar(str[1]) >> \o Slice(str, 1)

\* the elements of a finite set of numbers in ascending order
RECURSIVE Ascending(_)
Ascending(S) ==
    IF S = {} THEN <<>> ELSE << SetMin(S) >> \o Ascending(S \ {SetMin(S)})

\* the text of the last group of a regular expression before \o group, which
\* matched s as m: the group begins as late as the expression before it (which
\* prefers its longer alternative) and the match allow
GroupStarts(s, m, before, group) ==
    {g \in (m[1] + 1)..(m[2] - 1) :
        /\ RxEnd(SubSeq(s, 1, g - 1), m[1], before \o << Eos >>) # 0
        /\ RxEnd(SubSeq(s, 1, m[2] - 1), g, group \o << Eos >>) # 0}

LastGroup(s, m, before, group) ==
    SubSeq(s, SetMax(GroupStarts(s, m, before, group)), m[2] - 1)

\* what one unit of the transcript gives: a list of at most one element for
\* each of the action, the decision, the discussion point and the raw topic
Contribution(unit, kind, action, decision, point, raw) ==
    [unit |-> unit, kind |-> kind, action |-> action, decision |-> decision,
     point |-> point, raw |-> raw]

\* the actions in the order of the units; ids are crypto.randomUUID(), written
\* << "parsed", i >>
ActionsOf(cs) ==
    LET found == Flat([i \in 1..Len(cs) |-> cs[i].action])
    IN  [i \in 1..Len(found) |-> [found[i] EXCEPT !.id = << "parsed", i >>]]

DecisionsOf(cs) == Flat([i \in 1..Len(cs) |-> cs[i].decision])

\* the Map of the key points: the topics in the order of their first point,
\* each with its points in the order of the units
GroupByTopic(tagged) ==
    LET firsts == Ascending({i \in 1..Len(tagged) :
                       \A j \in 1..(i - 1) : tagged[j].topic # tagged[i].topic})
    IN  [n \in 1..Len(firsts) |->
            [topic |-> tagged[firsts[n]].topic,
             points |-> LET same == SelectSeq(tagged,
                                LAMBDA e : e.topic = tagged[firsts[n]].topic)
                        IN  [j \in 1..Len(same) |-> same[j].point]]]

-----------------------------------------------------------------------------
(* parseTranscript of exportService.ts *)

preprocessSteps == << All(RxES650, " "), All(RxES652, " ") >>

\* /\b(\w+)\s+\1\b/gi at position i, the word k letters long and j white
\* spaces after it: the position after the match, 0 when there is none
StutterEndKJ(s, i, k, j) ==
    IF /\ k >= 1
       /\ j >= 1
       /\ ~IsWordAt(s, i - 1)
       /\ i + 2 * k + j - 1 <= Len(s)
       /\ Lower(SubSeq(s, i + k + j, i + 2 * k + j - 1)) = Lower(SubSeq(s, i, i + k - 1))
       /\ ~IsWordAt(s, i + 2 * k + j)
    THEN i + 2 * k + j ELSE 0

StutterEndK(s, i, k) == StutterEndKJ(s, i, k, RunLen(s, i + k, SpaceCh, TRUE, Unbounded))

StutterEnd(s, i) == StutterEndK(s, i, RunLen(s, i, WordCh, TRUE, Unbounded))

RECURSIVE FirstStutter(_, _, _)
FirstStutter(s, lo, hi) ==
    IF lo > hi THEN 0
    ELSE IF lo = hi THEN (IF StutterEnd(s, lo) # 0 THEN lo ELSE 0)
    ELSE OrElse(FirstStutter(s, lo, (lo + hi) \div 2),
                FirstStutter(s, (lo + hi) \div 2 + 1, hi))

\* .replace(/\b(\w+)\s+\1\b/gi, '$1') from position from on, the next match
\* beginning at start
RECURSIVE StutterFrom(_, _, _)
RECURSIVE StutterNext(_, _)
StutterFrom(s, from, start) ==
    IF start = 0 THEN SubSeq(s, from, Len(s))
    ELSE SubSeq(s, from, start + RunLen(s, start, WordCh, TRUE, Unbounded) - 1)
         \o StutterNext(s, StutterEnd(s, start))

StutterNext(s, end) == StutterFrom(s, end, FirstStutter(s, end, Len(s)))

removeStutter(s) == StutterNext(s, 1)

preprocessTranscript(text) ==
    Trim(RxReplaceAll(removeStutter(splitCamelCase(ReplaceEach(text, preprocessSteps))),
                      RxES657, << " " >>))

markSteps ==
    << Once(RxES665, ""), Once(RxES666, ""), All(RxES669, ".SPLIT."),
       All(RxES670, ".SPLIT."), All(RxES671, ".SPLIT."), All(RxES672, ".SPLIT."),
       All(RxES673, ".SPLIT."), All(RxES674, ".SPLIT."), All(RxES675, ".SPLIT.") >>

UnitsOf(parts) ==
    SelectSeq([i \in 1..Len(parts) |-> Trim(RxReplace(parts[i], RxES680, <<>>))],
              LAMBDA u : Len(u) >= 12)

extractSemanticUnits(text) ==
    UnitsOf(RxSplit(Trim(ReplaceEach(text, markSteps)), RxES679))

isFragmentOf(t) ==
    \/ Len(t) < 15
    \/ Len(RxSplit(t, RxES695)) < 3
    \/ RxTest(t, RxES698)
    \/ RxTest(t, RxES701)
    \/ RxTest(t, RxES704)

isFragment(text) == isFragmentOf(Trim(text))

isNoiseOf(t) == Len(t) < 5 \/ RxTest(t, RxES713)

isNoise(text) == isNoiseOf(Trim(text))

trailingNoiseSteps ==
    << Once(RxES736, ""), Once(RxES737, ""), Once(RxES738, ""), Once(RxES739, ""),
       Once(RxES740, "") >>

professionalSteps ==
    << All(RxES745, "Team to"), All(RxES746, "Team to"), All(RxES747, "Team to"),
       All(RxES748, "To"), All(RxES749, "Ensure "), All(RxES750, "Ensure "),
       All(RxES751, ""), All(RxES752, "") >>

strayArtefactSteps == << All(RxES764, ""), All(RxES765, " "), All(RxES766, "") >>

\* timeMatch[1]: the digits the match m of /(\d+)\s+minutes?\s+.../i begins with
timeNoteOf(action, m) ==
    IF m[1] = 0 THEN <<>>
    ELSE Chs(" (")
         \o SubSeq(action, m[1], m[1] + RunLen(action, m[1], DigitSet, TRUE, Unbounded) - 1)
         \o Chs(" minutes before shift start)")

normalisePunctuality(action) ==
    IF RxTest(action, RxES755)
    THEN Chs("Arrive punctually for all scheduled shifts")
         \o timeNoteOf(action, RxFind(action, 1, RxES757))
    ELSE action

ownerX(text) ==
    IF RxTest(text, RxES777) THEN Chs("Manager")
    ELSE IF RxTest(text, RxES778) THEN Chs("All")
    ELSE IF RxTest(text, RxES779) THEN Chs("HR")
    ELSE Chs("Team")

\* deadlineMatch[1] of the match m
deadlineOfX(text, m) ==
    IF m[1] = 0 THEN Undefined
    ELSE LastGroup(text, m, SubSeq(RxES783, 1, 3), SubSeq(RxES783, 4, 4))

validActionX(text, action) ==
    IF Len(action) < 8 \/ Len(action) > 150 THEN <<>>
    ELSE << ActionItem(<< "parsed", 0 >>,
                       RxReplace(toSentenceCase(action), RxES773, <<>>),
                       ownerX(text),
                       deadlineOfX(text, RxFind(text, 1, RxES783))) >>

cleanActionX(text) ==
    Trim(ReplaceEach(
           normalisePunctuality(
             ReplaceEach(Trim(ReplaceEach(text, trailingNoiseSteps)), professionalSteps)),
           strayArtefactSteps))

directedX(text, lower) ==
    IF ~RxTest(lower, RxES724) THEN <<>>
    ELSE IF ~RxTest(lower, RxES729) THEN <<>>
    ELSE validActionX(text, cleanActionX(text))

extractAction(text) == directedX(text, Lower(text))

validDecisionX(decision) ==
    IF Len(decision) < 8 \/ Len(decision) > 150 THEN <<>>
    ELSE << toSentenceCase(RxReplace(decision, RxES804, <<>>)) \o Chs(".") >>

extractDecision(text) ==
    IF ~RxTest(text, RxES795) THEN <<>>
    ELSE validDecisionX(Trim(ReplaceEach(text, << Once(RxES798, ""), Once(RxES799, "") >>)))

pointStepsX ==
    << Once(RxES813, ""), All(RxES817, "Discussion covered"), All(RxES818, "Noted:"),
       All(RxES819, "Clarified:"), All(RxES820, "Consensus reached:"),
       All(RxES821, "Emphasised:"), All(RxES822, "Identified:"),
       All(RxES823, "Sales improvement discussed for"),
       All(RxES824, "Identified as a top priority"),
       Once(RxES828, ""), Once(RxES829, ""), All(RxES830, " ") >>

\* if (!/[.!?]$/.test(point)) point += '.'
withFullStopX(point) == IF RxTest(point, RxES840) THEN point ELSE point \o Chs(".")

validPointX(point) ==
    IF Len(point) < 15 \/ Len(point) > 160 THEN <<>>
    ELSE IF RxTest(point, RxES837) THEN <<>>
    ELSE << withFullStopX(toSentenceCase(point)) >>

createDiscussionPointX(text) ==
    IF Len(text) < 15 THEN <<>> ELSE validPointX(Trim(ReplaceEach(text, pointStepsX)))

topicsX ==
    << [pattern |-> RxES852, topic |-> "Sales & Business Development"],
       [pattern |-> RxES853, topic |-> "Attendance & Scheduling"],
       [pattern |-> RxES854, topic |-> "Performance & Development"],
       [pattern |-> RxES855, topic |-> "Finance"],
       [pattern |-> RxES856, topic |-> "Projects & Delivery"],
       [pattern |-> RxES857, topic |-> "Customer Service"],
       [pattern |-> RxES858, topic |-> "Safety & Compliance"],
       [pattern |-> RxES859, topic |-> "Food & Beverage / Events"],
       [pattern |-> RxES860, topic |-> "Staffing & HR"],
       [pattern |-> RxES861, topic |-> "Operations & Technology"],
       [pattern |-> RxES862, topic |-> "Marketing & Communications"] >>

\* the topic of the first pattern of topics, from number n on, that lower matches
RECURSIVE topicFrom(_, _, _)
topicFrom(lower, topics, n) ==
    IF n > Len(topics) THEN "General Matters"
    ELSE IF RxTest(lower, topics[n].pattern) THEN topics[n].topic
    ELSE topicFrom(lower, topics, n + 1)

detectTopicX(text) == topicFrom(Lower(text), topicsX, 1)

\* consolidateKeyPoints: the points of one topic without those that are
\* similar to a point kept before them
RECURSIVE uniqueX(_, _)
uniqueX(unique, points) ==
    IF points = <<>> THEN unique
    ELSE IF \E i \in 1..Len(unique) :
               Exceeds(calculateSimilarityX(unique[i], Head(points)), 65)
    THEN uniqueX(unique, Tail(points))
    ELSE uniqueX(Append(unique, Head(points)), Tail(points))

consolidateKeyPointsX(keyPoints) ==
    SelectSeq([i \in 1..Len(keyPoints) |->
                  [topic |-> keyPoints[i].topic,
                   points |-> uniqueX(<<>>, keyPoints[i].points)]],
              LAMBDA e : Len(e.points) > 0)

\* rawTopics.push(cleaned), for a unit of 15 characters and 3 words or more
rawTopicOf(unit) ==
    IF Len(unit) >= 15 /\ Len(Split(unit)) >= 3
    THEN << toSentenceCase(Trim(RxReplace(unit, RxES612, <<>>))) \o Chs(".") >>
    ELSE <<>>

\* the end of the loop body of parseTranscript, for a unit that is no action
\* and no decision
pointElseX(unit, raw, point) ==
    IF point # <<>> THEN Contribution(unit, "point", <<>>, <<>>, point, raw)
    ELSE Contribution(unit, "none", <<>>, <<>>, <<>>, raw)

decisionElseX(unit, raw, decision) ==
    IF decision # <<>> THEN Contribution(unit, "decision", <<>>, decision, <<>>, raw)
    ELSE pointElseX(unit, raw, createDiscussionPointX(unit))

\* the loop body with the decision tried first
actionElseX_decisionFirst(unit, raw, action) ==
    IF extractDecision(unit) # <<>>
    THEN Contribution(unit, "decision", <<>>, extractDecision(unit), <<>>, raw)
    ELSE IF action # <<>> THEN Contribution(unit, "action", action, <<>>, <<>>, raw)
    ELSE pointElseX(unit, raw, createDiscussionPointX(unit))

actionElseX(unit, raw, action) ==
    IF action # <<>> THEN Contribution(unit, "action", action, <<>>, <<>>, raw)
    ELSE decisionElseX(unit, raw, extractDecision(unit))

\* the loop body of parseTranscript
unitX(unit) ==
    IF isNoise(unit) THEN Contribution(unit, "noise", <<>>, <<>>, <<>>, <<>>)
    ELSE IF isFragment(unit)
    THEN Contribution(unit, "fragment", <<>>, <<>>, <<>>, rawTopicOf(unit))
    ELSE actionElseX(unit, rawTopicOf(unit), extractAction(unit))

KeyPointsOfX(cs) ==
    LET points == Flat([i \in 1..Len(cs) |-> cs[i].point])
    IN  GroupByTopic([i \in 1..Len(points) |->
                        [topic |-> detectTopicX(points[i]), point |-> points[i]]])

ParsedContentX(cs) ==
    [units |-> cs,
     keyPoints |-> KeyPointsOfX(cs),
     decisions |-> DecisionsOf(cs),
     transcriptActions |-> ActionsOf(cs),
     rawTopics |-> Flat([i \in 1..Len(cs) |-> cs[i].raw])]

parseUnitsX(units) == ParsedContentX([i \in 1..Len(units) |-> unitX(units[i])])

parseTranscriptX(transcriptText) ==
    IF Len(Trim(transcriptText)) < 5 THEN ParsedContentX(<<>>)
    ELSE parseUnitsX(extractSemanticUnits(preprocessTranscript(transcriptText)))

-----------------------------------------------------------------------------
(* parseTranscript of minutesGenerator.ts *)

cleanFillerWords(text) ==
    Trim(ReplaceEach(text, << All(RxMG603, " "), All(RxMG604, " ") >>))

greetingSteps == << Once(RxMG612, ""), All(RxMG613, ". ") >>

transitionSteps ==
    << All(RxMG616, ". "), All(RxMG617, ". "), All(RxMG618, ". "), All(RxMG619, ". "),
       All(RxMG620, ". "), All(RxMG621, ". "), All(RxMG622, ". "), All(RxMG623, ". "),
       All(RxMG624, ". "), All(RxMG625, ". "), All(RxMG626, ". "), All(RxMG627, ". "),
       All(RxMG628, ". "), All(RxMG629, ". "), All(RxMG630, ". "), All(RxMG631, ". "),
       All(RxMG632, ". "), All(RxMG633, ". ") >>

indicatorSteps ==
    << All(RxMG636, ". "), All(RxMG637, ". "), All(RxMG638, ". "), All(RxMG639, ". "),
       All(RxMG642, ". "), All(RxMG643, ". ") >>

addSentenceBoundaries(text) ==
    Trim(RxReplaceAll(
           splitCamelCase(
             ReplaceEach(text, greetingSteps \o transitionSteps \o indicatorSteps)),
           RxMG649, Chs(". ")))

\* .map(u => u.trim()).filter(u => u.length >= 8)
TrimmedUnits(parts) ==
    SelectSeq([i \in 1..Len(parts) |-> Trim(parts[i])], LAMBDA u : Len(u) >= 8)

unitsOrPhrases(text, units) ==
    IF Len(units) <= 1 /\ Len(text) > 50 THEN TrimmedUnits(RxSplit(text, RxMG663))
    ELSE units

splitIntoUnits(text) == unitsOrPhrases(text, TrimmedUnits(RxSplit(text, RxMG656)))

directiveSteps ==
    << Once(RxMG689, ""), All(RxMG693, "Team to"), All(RxMG694, "To"), All(RxMG695, ""),
       All(RxMG696, ""), All(RxMG697, ""), All(RxMG700, "Team"), All(RxMG701, "Team") >>

punctualitySteps ==
    << All(RxMG706, "arrive punctually"), All(RxMG707, ""), All(RxMG708, ""),
       All(RxMG709, " ") >>

consolidatePunctuality(action) ==
    IF RxTest(action, RxMG704) THEN ReplaceEach(action, punctualitySteps) ELSE action

owner(text) ==
    IF RxTest(text, RxMG728) THEN Chs("Manager")
    ELSE IF RxTest(text, RxMG729) THEN Chs("All")
    ELSE Chs("Team")

\* deadlineMatch[1] of the match m
deadlineOf(text, m) ==
    IF m[1] = 0 THEN Undefined
    ELSE LastGroup(text, m, SubSeq(RxMG733, 1, 3), SubSeq(RxMG733, 4, 4))

validAction(text, action) ==
    IF Len(action) < 10 \/ Len(action) > 120 THEN <<>>
    ELSE << ActionItem(<< "parsed", 0 >>,
                       RxReplace(toSentenceCase(action), RxMG724, <<>>),
                       owner(text),
                       deadlineOf(text, RxFind(text, 1, RxMG733))) >>

cleanAction(text) ==
    Trim(RxReplace(consolidatePunctuality(ReplaceEach(text, directiveSteps)),
                   RxMG713, <<>>))

\* hasSubject is computed and never read
extractActionSmart(text) ==
    IF ~RxTest(Lower(text), RxMG679) THEN <<>> ELSE validAction(text, cleanAction(text))

\* decision.charAt(0).toUpperCase() + decision.slice(1).replace(..) + '.'
validDecision(decision) ==
    IF Len(decision) < 10 \/ Len(decision) > 120 THEN <<>>
    ELSE << << UpperChar(decision[1]) >> \o RxReplace(Slice(decision, 1), RxMG756, <<>>)
            \o Chs(".") >>

extractDecisionSmart(text) ==
    IF ~RxTest(text, RxMG745) THEN <<>>
    ELSE validDecision(Trim(ReplaceEach(text, << Once(RxMG750, ""), Once(RxMG751, "") >>)))

pointSteps ==
    << All(RxMG768, "Discussion covered"), All(RxMG769, "Discussion required on"),
       All(RxMG770, "Noted"), All(RxMG771, "Raised"), All(RxMG772, "Explained"),
       All(RxMG773, "sales performance for"), Once(RxMG776, "") >>

withFullStop(point) == IF RxTest(point, RxMG786) THEN point ELSE point \o Chs(".")

validPoint(point) ==
    IF Len(point) < 15 \/ Len(point) > 120 THEN <<>>
    ELSE << withFullStop(toSentenceCase(point)) >>

createDiscussionPoint(text) ==
    IF RxTest(text, RxMG761) THEN <<>>
    ELSE IF Len(text) < 15 THEN <<>>
    ELSE validPoint(Trim(ReplaceEach(text, pointSteps)))

topics ==
    << [pattern |-> RxMG799, topic |-> "Sales & Business Development"],
       [pattern |-> RxMG800, topic |-> "Attendance & Scheduling"],
       [pattern |-> RxMG801, topic |-> "Finance"],
       [pattern |-> RxMG802, topic |-> "Performance & Development"],
       [pattern |-> RxMG803, topic |-> "Projects"],
       [pattern |-> RxMG804, topic |-> "Customer Service"],
       [pattern |-> RxMG805, topic |-> "Safety & Compliance"],
       [pattern |-> RxMG806, topic |-> "Operations"],
       [pattern |-> RxMG807, topic |-> "Food & Beverage"],
       [pattern |-> RxMG808, topic |-> "Staffing"] >>

detectTopic(text) == topicFrom(Lower(text), topics, 1)

mergePoints(p1, p2) ==
    IF Len(p1) > Len(p2) THEN p1 ELSE IF Len(p2) > Len(p1) THEN p2 ELSE p1

\* consolidateKeyPoints: one turn of the loop over the points of a topic,
\* idx the index of the first point that is similar, 0 when there is none
uniqueAt(uniquePoints, point, idx) ==
    IF idx = 0 THEN Append(uniquePoints, point)
    ELSE [uniquePoints EXCEPT ![idx] = mergePoints(uniquePoints[idx], point)]

uniqueOne(uniquePoints, point) ==
    LET similar(existing) == Exceeds(calculateSimilarity(existing, point), 75)
    IN  uniqueAt(uniquePoints, point, FindIndex(uniquePoints, similar))

RECURSIVE uniquePointsOf(_, _)
uniquePointsOf(uniquePoints, points) ==
    IF points = <<>> THEN uniquePoints
    ELSE uniquePointsOf(uniqueOne(uniquePoints, Head(points)), Tail(points))

consolidateKeyPoints(keyPoints) ==
    SelectSeq([i \in 1..Len(keyPoints) |->
                  [topic |-> keyPoints[i].topic,
                   points |-> uniquePointsOf(<<>>, keyPoints[i].points)]],
              LAMBDA e : Len(e.points) > 0)

\* the end of the loop body of parseTranscript, for a unit that is no action
\* and no decision
pointElse(unit, point) ==
    IF point # <<>> THEN Contribution(unit, "point", <<>>, <<>>, point, <<>>)
    ELSE Contribution(unit, "none", <<>>, <<>>, <<>>, <<>>)

decisionElse(unit, decision) ==
    IF decision # <<>> THEN Contribution(unit, "decision", <<>>, decision, <<>>, <<>>)
    ELSE pointElse(unit, createDiscussionPoint(unit))

actionElse(unit, action) ==
    IF action # <<>> THEN Contribution(unit, "action", action, <<>>, <<>>, <<>>)
    ELSE decisionElse(unit, extractDecisionSmart(unit))

\* the loop body of parseTranscript on cleaned = unit.trim()
unitOf(cleaned) ==
    IF Len(cleaned) < 8 THEN Contribution(cleaned, "short", <<>>, <<>>, <<>>, <<>>)
    ELSE actionElse(cleaned, extractActionSmart(cleaned))

KeyPointsOf(cs) ==
    LET points == Flat([i \in 1..Len(cs) |-> cs[i].point])
    IN  GroupByTopic([i \in 1..Len(points) |->
                        [topic |-> detectTopic(points[i]), point |-> points[i]]])

\* the copy of minutesGenerator.ts keeps no raw topics
ParsedContent(cs) ==
    [units |-> cs,
     keyPoints |-> KeyPointsOf(cs),
     decisions |-> DecisionsOf(cs),
     transcriptActions |-> ActionsOf(cs),
     rawTopics |-> <<>>]

parseUnits(units) == ParsedContent([i \in 1..Len(units) |-> unitOf(Trim(units[i]))])

parseTranscript(transcriptText) ==
    IF Len(Trim(transcriptText)) < 5 THEN ParsedContent(<<>>)
    ELSE parseUnits(splitIntoUnits(addSentenceBoundaries(cleanFillerWords(
                        Trim(RxReplaceAll(transcriptText, RxMG552, << " " >>))))))

-----------------------------------------------------------------------------
(* generateStructuredMinutes, and the compiler as MinutesScreen calls it:  *)
(* handleGenerateMinutes compiles the meeting, reads the actions back from *)
(* the document and saves both to the meeting.  SpecCompile calls it for   *)
(* meetings of every type, and again on the meeting it has saved.          *)

\* what one compilation computes: the parsed content, the merged actions, the
\* key points that are formatted and the document
Compilation(parsedContent, allActions, keyPoints, minutes) ==
    [units |-> parsedContent.units,
     decisions |-> parsedContent.decisions,
     transcriptActions |-> parsedContent.transcriptActions,
     allActions |-> allActions,
     keyPoints |-> keyPoints,
     minutes |-> minutes]

\* minutesGenerator.ts: generateStructuredMinutes from the formatting on
formatted(m, parsedContent, allActions, consolidatedKeyPoints) ==
    Compilation(parsedContent, allActions, consolidatedKeyPoints,
        Template(m.type, m.consentConfirmed, Len(m.attendees), Len(allActions),
                 generateExecutiveSummary(consolidatedKeyPoints, allActions, m.type),
                 formatAttendees(m.attendees),
                 formatKeyPoints(consolidatedKeyPoints),
                 formatDecisions(parsedContent.decisions),
                 formatActionsTable(allActions),
                 formatNextSteps(m.type, allActions),
                 generateHRAddendum(m.type, m.consentConfirmed)))

structured(m, parsedContent) ==
    formatted(m, parsedContent,
              mergeAndConsolidateActions(m.actions, parsedContent.transcriptActions),
              consolidateKeyPoints(parsedContent.keyPoints))

generateStructuredMinutes(m) == structured(m, parseTranscript(m.transcriptText))

\* exportService.ts: generateStructuredMinutes from the formatting on
formattedX(m, parsedContent, allActions, consolidatedKeyPoints) ==
    Compilation(parsedContent, allActions, consolidatedKeyPoints,
        Template(m.type, m.consentConfirmed, Len(m.attendees), Len(allActions),
                 generateExecutiveSummaryX(consolidatedKeyPoints, allActions, m.type),
                 formatAttendeesX(m.attendees),
                 formatKeyPointsX(consolidatedKeyPoints),
                 formatDecisionsX(parsedContent.decisions),
                 formatActionsTableX(allActions),
                 formatNextStepsX(m.type, allActions),
                 generateHRAddendumX(m.type, m.consentConfirmed)))

\* if the parser found nothing, the raw sentences become a General Matters bucket
withRawTopics(consolidatedKeyPoints, rawTopics) ==
    IF Len(consolidatedKeyPoints) = 0 /\ Len(rawTopics) > 0
    THEN << [topic |-> "General Matters",
             points |-> IF Len(rawTopics) > 8 THEN SubSeq(rawTopics, 1, 8) ELSE rawTopics] >>
    ELSE consolidatedKeyPoints

structuredX(m, parsedContent) ==
    formattedX(m, parsedContent,
               mergeAndConsolidateActionsX(m.actions, parsedContent.transcriptActions),
               withRawTopics(consolidateKeyPointsX(parsedContent.keyPoints),
                             parsedContent.rawTopics))

generateStructuredMinutesX(m) == structuredX(m, parseTranscriptX(m.transcriptText))

\* generateMinutes of the copy that runs
generateMinutes(cmp, m) ==
    IF cmp = "minutesGenerator" THEN generateStructuredMinutes(m)
    ELSE generateStructuredMinutesX(m)

\* the transcripts the meetings are drawn from
Transcripts ==
    << <<>>,
       << " ", "\n", " " >>,
       Chs("We decided you need to send the report by Friday"),
       Chs("I need to touch on"),
       Chs("We should really talk about"),
       Chs("Sales were strong across the region. We agreed the budget is final. We will send the report due by end of the week"),
       Chs("You need to take action. You need to take action on the budget"),
       Chs("The team agreed to review the budget by Monday"),
       Chs("Please send the report by Friday"),
       Chs("Rota changes start Monday. New changes start Monday. New rota changes start Monday"),
       Chs("Hello. We discussed the rota for next month. We discussed the rota for the next month. You must arrive 10 minutes early") >>

Attendees ==
    { [name |-> "Ann", role |-> "Employee"], [name |-> "Bob", role |-> "Chair"] }

MaxAttendees == 1     \* the attendee lists are up to this long
MaxRuns == 2          \* the compilations of one meeting

InitCompile ==
    /\ InitHook
    /\ apiPresent
    /\ consentChecked = FALSE
    /\ showConsentError = FALSE
    /\ onScreen = FALSE
    /\ compiler \in Compilers
    /\ meeting \in {[NewMeeting(type, attendees) EXCEPT
                        !.consentConfirmed = consent,
                        !.transcriptText = Transcripts[t]] :
                       type \in MeetingTypes, attendees \in ListsOf(Attendees, MaxAttendees),
                       consent \in BOOLEAN, t \in DOMAIN Transcripts}
    /\ parsed = <<>>
    /\ out = NoOut

\* the number of compilations before this one
RunsBefore == IF out.ran THEN out.run ELSE 0

\* the numbers of action items of the compilations before this one
CountsBefore == IF out.ran THEN out.counts ELSE <<>>

\* MinutesScreen.tsx, handleGenerateMinutes, c being what generateMinutes computes
saveCompilation(c) ==
    /\ meeting' = [meeting EXCEPT !.minutesText = c.minutes,
                                  !.actions = Extract(compiler, c.minutes)]
    /\ out' = [ran |-> TRUE, op |-> "compile", run |-> RunsBefore + 1,
               counts |-> Append(CountsBefore, Len(c.allActions)),
               units |-> c.units, decisions |-> c.decisions,
               transcriptActions |-> c.transcriptActions,
               allActions |-> c.allActions, keyPoints |-> c.keyPoints]
    /\ UNCHANGED << hookVars, screenVars, compiler, parsed >>

handleGenerateMinutes ==
    /\ RunsBefore < MaxRuns
    /\ saveCompilation(generateMinutes(compiler, meeting))

NextCompile == handleGenerateMinutes

SpecCompile == InitCompile /\ [][NextCompile]_vars

-----------------------------------------------------------------------------
(* Claims *)

C3_InterimIsLatest ==
    [][ lastResult' # <<>> =>
            /\ interimTranscript' = InterimOf(lastResult')
            /\ (FinalTextOf(lastResult') = <<>> =>
                    /\ finalTranscript' = finalTranscript
                    /\ transcript' = transcript) ]_vars

\* C4 (Spec): once a restart timeout has restarted the engine, a final text the
\* engine delivers is in the committed transcript: nothing is lost across the
\* restart.
C4_NothingLostAcrossRestart ==
    (lastResult # <<>> /\ restarted /\ Trim(FinalTextOf(lastResult)) # <<>>) =>
        Includes(Lower(transcript), Lower(Trim(FinalTextOf(lastResult))))

\* C5 (SpecDedup): a result event only extends the committed transcript: what was
\* committed before the event is a prefix of what is committed after it, in the
\* ref and in the exposed transcript.
C5_MonotonicGrowth ==
    [][ lastResult' # <<>> =>
            /\ IsPrefix(finalTranscript, finalTranscript')
            /\ IsPrefix(transcript, transcript') ]_vars

\* C5: an event has extended a transcript that was not empty
C5_Witness ==
    /\ lastResult # <<>>
    /\ Len(Trim(finalTranscript)) > Len(FinalTextOf(lastResult))
    /\ transcript = Trim(finalTranscript)

\* C6 (Spec): from a stopRecording or pauseRecording until the next startRecording
\* or resumeRecording the manually-stopped flag stays set and no engine is started,
\* whatever timeouts run and whatever the engines report.
C6_NoStartWhileHeld ==
    [][ (userHold /\ userHold') =>
            /\ isManuallyStopped'
            /\ \A e \in 1..MaxEngines :
                  engines'[e].status = "starting" => engines[e].status = "starting" ]_vars

\* C6: a restart timeout is still pending after the stop or pause
C6_Witness == userHold /\ isManuallyStopped /\ PendingTimers # {}

\* C7 (Spec): from a 'not-allowed' error until the next startRecording or
\* resumeRecording no engine is started and no restart timeout is scheduled.
C7_NoRestartAfterDenial ==
    [][ (denied /\ denied') =>
            /\ \A e \in 1..MaxEngines :
                  engines'[e].status = "starting" => engines[e].status = "starting"
            /\ PendingTimers' \subseteq PendingTimers ]_vars

\* C7: the engine has ended after the denial and nothing is left to restart it
C7_Witness ==
    denied /\ state = "recording" /\ LiveEngines = {} /\ PendingTimers = {}

\* C8 (Spec): the step that reports 'not-allowed' takes the lifecycle state out of
\* 'recording' and exposes the error.
C8_DenialHaltsSession ==
    [][ (~denied /\ denied') =>
            /\ state' # "recording"
            /\ error' = "permission-denied" ]_vars

AllowedTransitions ==
    { << "idle", "recording" >>, << "recording", "paused" >>,
      << "recording", "stopped" >>, << "paused", "recording" >>,
      << "paused", "stopped" >>, << "stopped", "idle" >> }

\* C9 (SpecApi): the lifecycle state changes only along the transitions of the
\* state machine, whatever the caller calls.
C9_LifecycleTransitions ==
    [][ state' # state => << state, state' >> \in AllowedTransitions ]_vars

\* C10 (SpecClock): right after startRecording the transcript, the preview and the
\* markers are empty, the elapsed time is zero, no restart timeout is pending and
\* the only live engine is the one just started.
C10_CleanStart ==
    [][ (apiPresent /\ state = "idle" /\ state' = "recording") =>
            /\ transcript' = <<>>
            /\ finalTranscript' = <<>>
            /\ interimTranscript' = <<>>
            /\ markers' = <<>>
            /\ elapsedTime' = 0
            /\ PendingTimers' = {}
            /\ LiveEngines' = {recognitionRef'} ]_vars

\* C20 (Spec): on the recording screen startRecording is called only while the
\* consent checkbox is checked, the checkbox keeps its value while the session
\* is recording, paused or stopped, and every write of the screen to the
\* meeting record leaves it with consentConfirmed = true.
C20_ConsentBeforeRecording ==
    [][ /\ ( \/ state = "idle" /\ state' = "recording"
             \/ error # "not-supported-in-browser" /\ error' = "not-supported-in-browser" )
           => consentChecked
        /\ state # "idle" => consentChecked' = consentChecked /\ consentChecked
        /\ meeting' # meeting => meeting'.consentConfirmed ]_vars

\* a session was started from an unchecked box that was then checked, was
\* stopped, and Continue has written the meeting
C20_Witness ==
    /\ ~onScreen
    /\ state = "stopped"
    /\ userHold
    /\ meeting.consentConfirmed
    /\ meeting.transcriptText = transcript

\* C11 (SpecActions): merging the parsed action "Send the report" (owner Team)
\* into the existing action "Send report" (owner Alice, deadline Friday) yields
\* exactly one action item, the existing one.
C11_NearDuplicateKeepsExisting ==
    ( /\ out.ran /\ out.op = "merge"
      /\ meeting.actions = << ActionItem(<< "x", 1 >>, Chs("Send report"), Chs("Alice"), Chs("Friday")) >>
      /\ parsed = << ActionItem(<< "p", 1 >>, Chs("Send the report"), Chs("Team"), Undefined) >> )
    => out.merged = meeting.actions

\* C12 (SpecActions): the merged list starts with all existing actions, in
\* their order and unchanged in text, owner, deadline and id.
C12_ExistingNeverOverridden ==
    (out.ran /\ out.op = "merge") =>
        /\ Len(out.merged) >= Len(meeting.actions)
        /\ SubSeq(out.merged, 1, Len(meeting.actions)) = meeting.actions

\* the action text as a table row shows it: cut to the table's limit
Truncated(cmp, action) ==
    LET limit == IF cmp = "minutesGenerator" THEN 60 ELSE 70
    IN  IF Len(action) > limit THEN Substring0(action, limit - 3) \o Chs("...") ELSE action

\* C14 (SpecActions): the actions read back from the rendered document are as
\* many as were rendered, in the same order, each with the same text up to the
\* truncation, the same owner and the same deadline.
C14_TableRoundTrip ==
    (out.ran /\ out.op = "table") =>
        /\ Len(out.extracted) = Len(meeting.actions)
        /\ \A i \in 1..Len(meeting.actions) :
              /\ out.extracted[i].action = Truncated(compiler, meeting.actions[i].action)
              /\ out.extracted[i].owner = meeting.actions[i].owner
              /\ out.extracted[i].deadline = meeting.actions[i].deadline

\* the mandatory sections, by the text their heading lines open with
Headings ==
    << "## Meeting Information", "## Attendees (", "## Discussion Summary",
       "## Decisions", "## Action Items (", "## Follow-up" >>

\* the number of the first line of document d that opens with h, 0 when there is none
HeadingAt(d, h) == FindIndex(d, LAMBDA l : StartsWith(l, Chs(h)))

HeadingsOf(d) == [n \in DOMAIN Headings |-> HeadingAt(d, Headings[n])]

\* every heading is there, at the lines at, and in the order of Headings
InOrder(at) ==
    /\ \A n \in DOMAIN at : at[n] > 0
    /\ \A n \in DOMAIN at : n > 1 => at[n - 1] < at[n]

\* the sections of d that are empty show their placeholder: the section of a
\* heading is the text two lines below it
Placeholders(d, at, m, allActions) ==
    /\ m.attendees = <<>> => d[at[2] + 2] = NoAttendees
    /\ d[at[3] + 2] = NoPoints
    /\ d[at[4] + 2] = NoDecisions
    /\ allActions = <<>> =>
          \E i \in at[5]..at[6] : d[i] \in {NoActionsRow, NoActionsRowX}
    /\ d[at[6] + 2] # <<>>

Complete(d, at, m, allActions) == InOrder(at) /\ Placeholders(d, at, m, allActions)

\* C18 (SpecCompile): the document compiled from a meeting whose transcript is
\* empty or white space only, of any type and with any attendee list, has the
\* six mandatory sections in order (Meeting Information, Attendees, Discussion
\* Summary, Decisions, Action Items, Follow-up), and every section that is
\* empty shows its placeholder.
C18_EmptyTranscriptComplete ==
    (out.ran /\ out.op = "compile" /\ Trim(meeting.transcriptText) = <<>>) =>
        Complete(meeting.minutesText, HeadingsOf(meeting.minutesText), meeting,
                 out.allActions)

\* a disciplinary meeting with an attendee and a transcript of white space
\* has been compiled by the copy of exportService.ts
C18_Witness ==
    /\ out.ran /\ out.op = "compile"
    /\ compiler = "exportService"
    /\ meeting.type = "disciplinary"
    /\ meeting.attendees # <<>>
    /\ meeting.transcriptText = << " ", "\n", " " >>
    /\ NoPoints \in Range(meeting.minutesText)
    /\ NoActionsRowX \in Range(meeting.minutesText)

\* C19 (SpecCompile): the compiled minutes hold the heading of the HR addendum
\* exactly when the meeting type is disciplinary or investigation, whatever the
\* transcript, the attendees and the consent flag are.
C19_AddendumGating ==
    (out.ran /\ out.op = "compile") =>
        (HRHeading \in Range(meeting.minutesText)
           <=> meeting.type \in {"disciplinary", "investigation"})

\* an investigation meeting with consent and a transcript that gives an
\* action has been compiled with the addendum, by the copy of minutesGenerator.ts
C19_Witness ==
    /\ out.ran /\ out.op = "compile"
    /\ compiler = "minutesGenerator"
    /\ meeting.type = "investigation"
    /\ meeting.consentConfirmed
    /\ Len(out.allActions) > 0
    /\ HRHeading \in Range(meeting.minutesText)

\* the action test and the decision test of the copy cmp on a unit
passesAction(cmp, unit) ==
    IF cmp = "minutesGenerator" THEN extractActionSmart(unit) # <<>>
    ELSE extractAction(unit) # <<>>

passesDecision(cmp, unit) ==
    IF cmp = "minutesGenerator" THEN extractDecisionSmart(unit) # <<>>
    ELSE extractDecision(unit) # <<>>

UnitText(unit) ==
    Lower(Trim(RxReplace(unit, << Rep({".", "!", "?"}, 1, Unbounded), Eos >>, <<>>)))

\* the discussion points the document shows, of all topics
PointsOf(keyPoints) == Flat([i \in 1..Len(keyPoints) |-> keyPoints[i].points])

\* some point shows the words of the unit
ShownAsPoint(unit, points) ==
    \E j \in 1..Len(points) : Includes(Lower(points[j]), UnitText(unit))

\* C15 (SpecCompile): every unit gives at most one of an action, a decision
\* and a discussion point, and the words of a unit that gave an action or a
\* decision are in no discussion point of the document.
C15_OneCategoryPerUnit ==
    (out.ran /\ out.op = "compile") =>
        \A i \in 1..Len(out.units) :
           /\ Len(out.units[i].action) + Len(out.units[i].decision)
                 + Len(out.units[i].point) <= 1
           /\ out.units[i].kind \in {"action", "decision"}
                 => ~ShownAsPoint(out.units[i].unit, PointsOf(out.keyPoints))

\* some line of document d shows the words of the unit
ShownInDocument(unit, d) ==
    \E j \in 1..Len(d) : Includes(Lower(d[j]), UnitText(unit))

\* C17 (SpecCompile): a unit that the fragment filter judges incomplete gives
\* no action, no decision and no discussion point, and no line of the compiled
\* document shows its words.
C17_FragmentsDropped ==
    (out.ran /\ out.op = "compile") =>
        \A i \in 1..Len(out.units) :
           isFragment(out.units[i].unit)
             => /\ out.units[i].action = <<>>
                /\ out.units[i].decision = <<>>
                /\ out.units[i].point = <<>>
                /\ ~ShownInDocument(out.units[i].unit, meeting.minutesText)

\* C13 (SpecCompile): a second compilation of the meeting, whose existing
\* actions are those read back from the first document, gives as many action
\* items as the first one.
C13_RecompileIdempotent ==
    (out.ran /\ out.op = "compile" /\ Len(out.counts) >= 2)
        => out.counts[2] = out.counts[1]

\* C21 (Spec): at most one engine that the hook has started has not ended yet.
C21_SingleLiveEngine == Cardinality(LiveEngines) <= 1

-----------------------------------------------------------------------------
(* The hook on the recording screen with an engine that always ends and    *)
(* timeouts that always run: setTimeout callbacks are run by the event     *)
(* loop once their delay has passed, and a speech engine that has been     *)
(* started delivers its 'end' event when it terminates.                    *)

SpecRestart ==
    /\ Init
    /\ [][Next]_vars
    /\ \A t \in 1..MaxTimers : WF_vars(Mounted(restartTimeout(t)))
    /\ \A e \in 1..MaxEngines : WF_vars(Mounted(onend(e)))

\* a restart timeout has run and started an engine
AutoRestart ==
    /\ \E t \in 1..MaxTimers : timers[t].pending /\ ~timers'[t].pending
    /\ \E e \in 1..MaxEngines :
          engines[e].status = "free" /\ engines'[e].status = "starting"

\* C22 (SpecRestart): in a session that stays in 'recording', with an engine
\* that ends after every start, only finitely many restart timeouts start an
\* engine.
C22_NoRestartStorm ==
    <>[](state = "recording") => <>[][~AutoRestart]_vars

\* C23 (SpecClock): after every step a one-second ticker runs exactly when the
\* lifecycle state is 'recording', never more than one ticker runs, the elapsed
\* time keeps its value while the state stays paused, stopped or idle, and it
\* advances only from 'recording'.
C23_ClockWhileRecording ==
    [][ /\ (Tickers' > 0) <=> (state' = "recording")
        /\ Tickers' <= 1
        /\ (state # "recording" /\ state' = state) => elapsedTime' = elapsedTime
        /\ elapsedTime' > elapsedTime => state = "recording" ]_vars

\* C23: the clock has ticked and the session is paused, with no ticker running
C23_Witness ==
    state = "paused" /\ elapsedTime > 0 /\ Tickers = 0 /\ timerIntervalRef = "cleared"

\* C24 (Spec): the step in which an engine reports 'no-speech' or 'aborted'
\* leaves the error, the lifecycle state, the committed transcript, the
\* preview and the manually-stopped flag as they were, and schedules no restart
\* timeout.
C24_SilentErrors ==
    [][ lastError' \in {"no-speech", "aborted"} =>
            /\ error' = error
            /\ state' = state
            /\ transcript' = transcript
            /\ finalTranscript' = finalTranscript
            /\ interimTranscript' = interimTranscript
            /\ isManuallyStopped' = isManuallyStopped
            /\ timers' = timers
            /\ restartTimeoutRef' = restartTimeoutRef ]_vars

\* C24: 'no-speech' was reported to a session that shows an earlier error and
\* whose engine is running
C24_Witness ==
    /\ lastError = "no-speech"
    /\ error # "null"
    /\ state = "recording"
    /\ ~isManuallyStopped
    /\ \E e \in 1..MaxEngines : engines[e].status = "running"

\* C25 (SpecDedup): a result event whose final text is not blank and that
\* extractNewContent finds no overlap for makes the exposed transcript the old
\* transcript, one space and the trimmed final text, or the trimmed final text
\* alone when nothing was committed before.
C25_AppendNewSegment ==
    [][ ( /\ lastResult' # <<>>
          /\ Trim(FinalTextOf(lastResult')) # <<>>
          /\ extractCase(FinalTextOf(lastResult'), finalTranscript)
                 \in {"new", "no-existing"} )
        => transcript' = IF transcript = <<>>
                         THEN Trim(FinalTextOf(lastResult'))
                         ELSE transcript \o << " " >> \o Trim(FinalTextOf(lastResult')) ]_vars

-----------------------------------------------------------------------------
(* The markers of a session: the controls of RecordingScreen, the marker   *)
(* buttons and the clock, with engines that end and restart timeouts that  *)
(* run, and no other engine event                                          *)

MaxSessionMarkers == 2     \* markers kept when the marker list is followed

SessionMarkerStep ==
    \E type \in MarkerTypes :
        /\ Len(markers) < MaxSessionMarkers
        /\ isSupported /\ state \in {"recording", "paused"} /\ Mounted(addMarker(type))

NextMarkers ==
    \/ Mounted(checkSupport)
    \/ ScreenStep
    \/ SessionMarkerStep
    \/ Mounted(tick)
    \/ \E e \in 1..MaxEngines : Mounted(onend(e))
    \/ \E t \in 1..MaxTimers : Mounted(restartTimeout(t))

SpecMarkers == Init /\ [][NextMarkers]_vars

\* C26 (SpecMarkers): a step that changes the marker list either appends one
\* marker stamped with the elapsed time of before the step, leaving the earlier
\* markers in place, or empties the list in a startRecording or a
\* resetRecording; after every step the timestamps are in non-decreasing order
\* and none exceeds the elapsed time.
C26_MarkersAppendOnly ==
    [][ /\ markers' # markers =>
              \/ /\ Len(markers') = Len(markers) + 1
                 /\ SubSeq(markers', 1, Len(markers)) = markers
                 /\ markers'[Len(markers')].timestamp = elapsedTime
                 /\ markers'[Len(markers')].type \in MarkerTypes
              \/ /\ markers' = <<>>
                 /\ state' = "idle" \/ (state = "idle" /\ state' = "recording")
        /\ \A i \in 1..Len(markers') : markers'[i].timestamp <= elapsedTime'
        /\ \A i \in 1..Len(markers'), j \in 1..Len(markers') :
              i < j => markers'[i].timestamp <= markers'[j].timestamp ]_vars

\* C26: a marker set after a tick has been appended to one set before it, in a
\* session that is paused
C26_Witness ==
    /\ state = "paused"
    /\ Len(markers) = 2
    /\ markers[1].timestamp < markers[2].timestamp
    /\ markers[2].timestamp = elapsedTime

\* the agent words of the copy that runs (minutesGenerator.ts:681,
\* exportService.ts:729), looked for in the unit as written and in lower case
hasAgent(cmp, unit) ==
    IF cmp = "minutesGenerator"
    THEN RxTest(unit, RxMG681) \/ RxTest(Lower(unit), RxMG681)
    ELSE RxTest(unit, RxES729) \/ RxTest(Lower(unit), RxES729)

\* the directive-verb test of the copy that runs
hasDirective(cmp, unit) ==
    IF cmp = "minutesGenerator" THEN RxTest(Lower(unit), RxMG679)
    ELSE RxTest(Lower(unit), RxES724)

\* C27 (SpecCompile): every unit that gives an action item holds a directive
\* verb and an agent word of the lexicons of the compiler that ran.
C27_ActionNeedsVerbAndAgent ==
    (out.ran /\ out.op = "compile") =>
        \A i \in 1..Len(out.units) :
           out.units[i].action # <<>>
             => /\ hasDirective(compiler, out.units[i].unit)
                /\ hasAgent(compiler, out.units[i].unit)

\* two points are above the merge threshold of the copy that runs
NearDuplicates(cmp, p, q) ==
    IF cmp = "minutesGenerator" THEN Exceeds(calculateSimilarity(p, q), 75)
    ELSE Exceeds(calculateSimilarityX(p, q), 65)

\* C28 (SpecCompile): no two discussion points that the compilation emits
\* under one topic have a similarity above the merge threshold.
C28_NoNearDuplicatePoints ==
    (out.ran /\ out.op = "compile") =>
        \A t \in 1..Len(out.keyPoints) :
           \A i \in 1..Len(out.keyPoints[t].points), j \in 1..Len(out.keyPoints[t].points) :
              i < j => ~NearDuplicates(compiler, out.keyPoints[t].points[i],
                                       out.keyPoints[t].points[j])

-----------------------------------------------------------------------------
(* MinutesScreen with its editor: the minutes are compiled, the user edits *)
(* the text and saves it, and the meeting is compiled again                *)

\* the row the user types into the table of actions
EditedRow == Chs("| Go | Bob | Monday |")

\* the text with EditedRow put under the rule line of the table of actions,
\* unless the text holds the row already
WithRow(minutes) ==
    LET heads == {i \in 1..(Len(minutes) - 1) : RxTest(minutes[i], HeaderRx)}
    IN  IF heads = {} \/ \E i \in 1..Len(minutes) : minutes[i] = EditedRow THEN minutes
        ELSE SubSeq(minutes, 1, SetMin(heads) + 1) \o << EditedRow >>
                 \o SubSeq(minutes, SetMin(heads) + 2, Len(minutes))

\* the textarea, onChange={(e) => setMinutes(e.target.value)}: what the user
\* has made of the text when Save is pressed
Edits(minutes) == {minutes, WithRow(minutes)}

\* MinutesScreen.tsx, handleSaveMinutes, minutes being the text of the editor
handleSaveMinutes(minutes) ==
    /\ out.ran
    /\ meeting' = [meeting EXCEPT !.minutesText = minutes,
                                  !.actions = Extract(compiler, minutes)]
    /\ out' = [out EXCEPT !.op = "save"]
    /\ UNCHANGED << hookVars, screenVars, compiler, parsed >>

InitSave ==
    /\ InitCompile
    /\ meeting.type = "team"
    /\ meeting.attendees = <<>>
    /\ ~meeting.consentConfirmed

NextSave ==
    \/ handleGenerateMinutes
    \/ \E minutes \in Edits(meeting.minutesText) : handleSaveMinutes(minutes)

SpecSave == InitSave /\ [][NextSave]_vars

MinActionLen == 8
MaxActionLen == 150

\* C29 (SpecSave): every action item of the meeting has an action text of 8
\* to 150 characters.
C29_StoredActionsWellFormed ==
    \A i \in 1..Len(meeting.actions) :
        /\ Len(meeting.actions[i].action) >= MinActionLen
        /\ Len(meeting.actions[i].action) <= MaxActionLen

\* C30 (Spec): a result event delivered after stopRecording or pauseRecording
\* and before the next start or resume, whose final text is not blank, is
\* committed as the commit step of onresult commits any final text, and in
\* 'stopped' the screen writes the transcript it gives to the meeting.
C30_LateResultsCommitted ==
    [][ ( /\ lastResult' # <<>>
          /\ userHold
          /\ Trim(FinalTextOf(lastResult')) # <<>> )
        => /\ finalTranscript' = CommitStep(finalTranscript, FinalTextOf(lastResult'))
           /\ transcript' = Trim(finalTranscript')
           /\ state' = "stopped" => meeting'.transcriptText = transcript' ]_vars

====
